---- MODULE Spec2Model ----
(***************************************************************************)
(* DICOM gateway: the DIMSE operation bridge (pacs_operations.py), the     *)
(* retrieve progress aggregation of its callers (main.py, api_main.py),    *)
(* the query and retrieve descriptor builders, the storage receiver        *)
(* (dicom_scp.py) and the lifecycle of its listener.                       *)
(*                                                                         *)
(* Optional values (a dataset attribute that may be absent, Python None)   *)
(* are sequences of length 0 or 1: <<>> is absent, <<v>> is the value v.   *)
(***************************************************************************)
EXTENDS Integers, Sequences, FiniteSets, TLC

\* ------------------------------------------------------------------------
\* Bounds
\* ------------------------------------------------------------------------
\* longest response stream one C-FIND / C-MOVE delivers
MaxResponses == 3
\* most entries of a generic filter map
MaxFilters == 2
\* most entries of a 'fields' list
MaxFields == 1
\* most C-STORE events the storage receiver is sent
MaxEvents == 3

\* most instances one bulk retrieve request names
MaxInstances == 2

\* most datasets one instance query returns
MaxDatasets == 2

\* ------------------------------------------------------------------------
\* DIMSE status codes
\* ------------------------------------------------------------------------
\* 0x0000
StatusSuccess == 0
\* 0xFF00
StatusPending == 65280
\* 0xFF01
StatusPendingWarning == 65281
\* a failure status the remote node may report (0xA702, refused: unable to
\* perform sub-operations); any code outside 0x0000/0xFF00/0xFF01 behaves alike
FailureCodes == {42754}
\* 0xA801, returned by handle_store for a dataset without SOPInstanceUID
StatusNoInstanceUID == 43009
\* 0xC001, returned by handle_store from its except clause
StatusCannotProcess == 49153

None == <<>>
Some(v) == <<v>>

\* ------------------------------------------------------------------------
\* State
\* ------------------------------------------------------------------------
VARIABLES
  op,           \* what this run exercises: "move" | "find" | "build" |
                \* "store" | "listener" | "concurrent"
  \* ---- one retrieve: perform_c_move_async and the endpoint calling it ----
  mcaller,      \* which endpoint drives the retrieve: "main" | "api_main"
  mpc,          \* position of the retrieve
  massoc,       \* association: "none" | "established" | "failed" | "released"
  msent,        \* TRUE once the C-MOVE request was handed to send_c_move
  mreleases,    \* number of assoc.release calls made
  mexc,         \* exception perform_c_move_async exited with, or "none"
  mresults,     \* results list of perform_c_move_async: the status datasets
  foldi,        \* api_main loop: number of move_responses items folded
  final_status_ds, \* api_main loop: final_status_ds (None or a status dataset)
  num_completed,   \* api_main loop: num_completed
  num_failed,      \* api_main loop: num_failed
  num_warning,     \* api_main loop: num_warning
  moutcome,     \* what the caller of the endpoint receives
  \* ---- one query: perform_c_find_async and the tool calling it ----
  fpc,          \* position of the query
  fassoc,       \* association: "none" | "established" | "failed" | "released"
  fsent,        \* TRUE once the C-FIND request was handed to send_c_find
  freleases,    \* number of assoc.release calls made
  fexc,         \* exception caught by the except clause, or "none"
  fstream,      \* responses the worker thread has received so far
  fresponses,   \* responses: the list the worker thread returned
  fidx,         \* number of items of responses the for loop has processed
  fresults,     \* results
  foutcome,     \* what the caller of query_studies receives
  \* ---- one query descriptor build ----
  endpoint,     \* the endpoint building the descriptor
  bpc,          \* position of the build
  filters,      \* the generic filter map: a sequence of <<token, value>>
  fields,       \* the 'fields' list of an instance query: tokens
  named,        \* the named filters of a STUDY query: keyword -> None | Some(value)
  request,      \* the MoveRequest of a retrieve: study, series, sop identifiers
  bidx,         \* number of entries of the current loop already processed
  identifier,   \* the descriptor: keyword -> None | Some(value)
  \* ---- the storage receiver: handle_store, one run per handler thread ----
  hpc,          \* handler thread -> position inside handle_store
  hevent,       \* handler thread -> the C-STORE event it handles
  htouched,     \* handler thread -> TRUE once it opened a file for the event
  storage,      \* storage_dir: file name -> the parts of its content
  delivered,    \* number of C-STORE events that arrived
  hlog,         \* the handled events with their outcome, in completion order
  \* ---- the listener lifecycle: start_scp_server and the shutdown hook ----
  tpc,          \* position of the listener thread
  ae_scp,       \* dicom_scp.ae_scp: "None" | "AE"
  hookpc,       \* position of the lifespan / shutdown hook
  starts,       \* number of listener threads started
  shutdown_requested, \* TRUE once ae_scp.shutdown() was called
  \* ---- concurrent query / retrieve operations ----
  ckind,        \* operation -> "find" | "move"
  cpc,          \* operation -> position inside perform_c_find/move_async
  assocs,       \* association object -> "established" | "failed" | "released"
  cresult,      \* operation -> what its caller receives
  \* ---- one bulk retrieve: retrieve_multiple_instances_via_cmove ----
  instances_to_move,  \* request_data.instances_to_move: SOP Instance UIDs
  kpc,          \* position of the endpoint
  kmoves,       \* the SOP Instance UIDs perform_c_move_async was called for
  kouts,        \* how each of these calls ended
  responses_summary,  \* responses_summary
  \* ---- the mcp_server package: the run of mcp_server/main.py ----
  ipc,          \* position inside mcp_server/main.py
  module_dicom_context, \* mcp_server.context.dicom_context: "unset" | "None" | "context"
  bound_dicom_context,  \* importing module -> what its own name dicom_context is bound to
  initialized,  \* TRUE once _initialize_server returned
  tool_result,  \* tool -> what its last invocation did
  \* ---- one instance-query response: the value conversion of the results ----
  variant,      \* the response builder: "api_main" | "api_main_new" | "main"
  results_datasets,  \* the datasets perform_c_find_async returned
  epc,          \* position of the response builder
  response_list,     \* response_list: the headers value of each dataset so far
  eoutcome,     \* what the client of the endpoint receives
  \* ---- execution contexts ----
  netctx        \* the blocking network steps taken so far, each with the
                \* thread that ran it: <<step, "worker" | "loop">>

mvars == <<mcaller, mpc, massoc, msent, mreleases, mexc, mresults, foldi,
           final_status_ds, num_completed, num_failed, num_warning, moutcome>>

fvars == <<fpc, fassoc, fsent, freleases, fexc, fstream, fresponses, fidx,
           fresults, foutcome>>

bvars == <<endpoint, bpc, filters, fields, named, request, bidx, identifier>>

svars == <<hpc, hevent, htouched, storage, delivered, hlog>>

lvars == <<tpc, ae_scp, hookpc, starts, shutdown_requested>>

cvars == <<ckind, cpc, assocs, cresult>>

kvars == <<instances_to_move, kpc, kmoves, kouts, responses_summary>>

ivars == <<ipc, module_dicom_context, bound_dicom_context, initialized, tool_result>>

evars == <<variant, results_datasets, epc, response_list, eoutcome>>

vars == <<op, mvars, fvars, bvars, svars, lvars, cvars, kvars, ivars, evars, netctx>>

\* what the actions of one request leave alone
notMove == <<op, fvars, bvars, svars, lvars, cvars, kvars, ivars, evars>>
notFind == <<op, mvars, bvars, svars, lvars, cvars, kvars, ivars, evars>>
notBuild == <<op, mvars, fvars, svars, lvars, cvars, kvars, ivars, evars, netctx>>
notStore == <<op, mvars, fvars, bvars, lvars, cvars, kvars, ivars, evars, netctx>>
notListener == <<op, mvars, fvars, bvars, svars, cvars, kvars, ivars, evars, netctx>>
notConcurrent == <<op, mvars, fvars, bvars, svars, lvars, kvars, ivars, evars, netctx>>
notBulk == <<op, mvars, fvars, bvars, svars, lvars, cvars, ivars, evars, netctx>>
notMcp == <<op, mvars, fvars, bvars, svars, lvars, cvars, kvars, evars, netctx>>
notEncode == <<op, mvars, fvars, bvars, svars, lvars, cvars, kvars, ivars, netctx>>

\* ------------------------------------------------------------------------
\* C-MOVE status datasets
\* ------------------------------------------------------------------------
\* The three sub-operation counters a status dataset may carry, as
\* <<completed, failed, warning>>, each optional.
CounterTriples ==
  { <<None, None, None>>,
    <<Some(1), Some(0), Some(0)>>,
    <<Some(3), Some(1), Some(0)>>,
    <<Some(4), Some(1), Some(0)>> }

StatusDataset(st, t) ==
  [ Status |-> st,
    NumberOfCompletedSuboperations |-> t[1],
    NumberOfFailedSuboperations |-> t[2],
    NumberOfWarningSuboperations |-> t[3] ]

\* pynetdicom yields Dataset() (no element at all) for an aborted, timed-out
\* or invalid response
EmptyDataset == StatusDataset(None, <<None, None, None>>)

MoveStatuses == {StatusSuccess, StatusPending} \cup FailureCodes

MoveReports ==
  {EmptyDataset} \cup
  { StatusDataset(Some(s), t) : s \in MoveStatuses, t \in CounterTriples }

\* bool(ds): a pydicom Dataset is truthy iff it holds at least one element
Truthy(ds) == \E k \in DOMAIN ds : ds[k] # None

\* ds.get(key, default)
Get(ds, key, default) == IF ds[key] = None THEN default ELSE ds[key][1]

\* hasattr(ds, 'Status')
HasStatus(ds) == ds.Status # None

NoOutcome == [kind |-> "none", http |-> None, label |-> "none", status |-> None,
              completed |-> None, failed |-> None, warning |-> None]

MoveInit ==
  /\ mcaller \in IF op = "move" THEN {"main", "api_main"} ELSE {"none"}
  /\ mpc = IF op = "move" THEN "start" ELSE "idle"
  /\ massoc = "none"
  /\ msent = FALSE
  /\ mreleases = 0
  /\ mexc = "none"
  /\ mresults = <<>>
  /\ foldi = 0
  /\ final_status_ds = None
  /\ num_completed = 0
  /\ num_failed = 0
  /\ num_warning = 0
  /\ moutcome = NoOutcome

\* ------------------------------------------------------------------------
\* perform_c_move_async
\* ------------------------------------------------------------------------
\* the thread a blocking network step of perform_c_move_async runs on:
\* ae.associate, assoc.send_c_move and assoc.release are handed to
\* loop.run_in_executor; send_c_move sends the request and returns a
\* generator, which the `for` loop of the coroutine consumes: each response
\* is received on the thread of the event loop
MoveContext(step) == <<step, IF step = "receive" THEN "loop" ELSE "worker">>

\* assoc = await loop.run_in_executor(None, associate_callable)
MoveAssociate ==
  /\ mpc = "start"
  /\ \E ok \in BOOLEAN : massoc' = IF ok THEN "established" ELSE "failed"
  /\ mpc' = "associated"
  /\ UNCHANGED <<notMove, mcaller, msent, mreleases, mexc, mresults, foldi,
                 final_status_ds, num_completed, num_failed, num_warning, moutcome>>
  /\ netctx' = netctx \cup {MoveContext("associate")}

\* else: raise ConnectionError(...)
MoveAssocFailed ==
  /\ mpc = "associated"
  /\ massoc # "established"
  /\ mexc' = "ConnectionError"
  /\ mpc' = "raised"
  /\ UNCHANGED <<notMove, mcaller, massoc, msent, mreleases, mresults, foldi,
                 final_status_ds, num_completed, num_failed, num_warning, moutcome>>
  /\ UNCHANGED netctx

\* responses_generator = await loop.run_in_executor(None, assoc.send_c_move, ...)
MoveSend ==
  /\ mpc = "associated"
  /\ massoc = "established"
  /\ msent' = TRUE
  /\ mpc' = "consume"
  /\ UNCHANGED <<notMove, mcaller, massoc, mreleases, mexc, mresults, foldi,
                 final_status_ds, num_completed, num_failed, num_warning, moutcome>>
  /\ netctx' = netctx \cup {MoveContext("send")}

\* the executor call raises; no handler and no finally in perform_c_move_async
MoveSendRaises ==
  /\ mpc = "associated"
  /\ massoc = "established"
  /\ \E b \in BOOLEAN : msent' = b
  /\ mexc' = "Exception"
  /\ mpc' = "raised"
  /\ UNCHANGED <<notMove, mcaller, massoc, mreleases, mresults, foldi,
                 final_status_ds, num_completed, num_failed, num_warning, moutcome>>
  /\ netctx' = netctx \cup {MoveContext("send")}

\* for status_ds, returned_identifier_ds in responses_generator:
\*     results.append((status_ds, returned_identifier_ds))
MoveReceive ==
  /\ mpc = "consume"
  /\ Len(mresults) < MaxResponses
  /\ \E r \in MoveReports : mresults' = Append(mresults, r)
  /\ UNCHANGED <<notMove, mcaller, mpc, massoc, msent, mreleases, mexc, foldi,
                 final_status_ds, num_completed, num_failed, num_warning, moutcome>>
  /\ netctx' = netctx \cup {MoveContext("receive")}

\* the generator raises while the loop consumes it
MoveReceiveRaises ==
  /\ mpc = "consume"
  /\ mexc' = "Exception"
  /\ mpc' = "raised"
  /\ UNCHANGED <<notMove, mcaller, massoc, msent, mreleases, mresults, foldi,
                 final_status_ds, num_completed, num_failed, num_warning, moutcome>>
  /\ netctx' = netctx \cup {MoveContext("receive")}

\* the generator is exhausted; await loop.run_in_executor(None, assoc.release);
\* return results
MoveRelease ==
  /\ mpc = "consume"
  /\ massoc' = "released"
  /\ mreleases' = mreleases + 1
  /\ mpc' = "returned"
  /\ UNCHANGED <<notMove, mcaller, msent, mexc, mresults, foldi,
                 final_status_ds, num_completed, num_failed, num_warning, moutcome>>
  /\ netctx' = netctx \cup {MoveContext("release")}

\* ------------------------------------------------------------------------
\* main.py: move_dicom_entity_to_local_server (the same code is in
\* main_mcp.py and mcp_server/tools/store.py)
\* ------------------------------------------------------------------------
Outcome(kind, http, label, st, c, f, w) ==
  [kind |-> kind, http |-> http, label |-> label, status |-> st,
   completed |-> c, failed |-> f, warning |-> w]

\* final_status = move_responses[-1][0] if move_responses and move_responses[-1] else None
MainFinalStatus(move_responses) ==
  IF move_responses = <<>> THEN None
  ELSE Some(move_responses[Len(move_responses)])

\* MainMoveOutcome with a success status assumed when no final status was
\* received
MainMoveOutcomeAssumesSuccess(move_responses) ==
  LET final_status == MainFinalStatus(move_responses) IN
  IF final_status # None /\ Truthy(final_status[1]) /\ HasStatus(final_status[1])
  THEN Outcome("returned", None, "status", final_status[1].Status,
               Some(Get(final_status[1], "NumberOfCompletedSuboperations", 0)),
               Some(Get(final_status[1], "NumberOfFailedSuboperations", 0)),
               Some(Get(final_status[1], "NumberOfWarningSuboperations", 0)))
  ELSE Outcome("returned", None, "status", Some(StatusSuccess), Some(0), Some(0), Some(0))

\* if final_status and hasattr(final_status, 'Status'): return {...}
\* return {"status": "UNKNOWN", ...}
MainMoveOutcome(move_responses) ==
  LET final_status == MainFinalStatus(move_responses) IN
  IF final_status # None /\ Truthy(final_status[1]) /\ HasStatus(final_status[1])
  THEN Outcome("returned", None, "status", final_status[1].Status,
               Some(Get(final_status[1], "NumberOfCompletedSuboperations", 0)),
               Some(Get(final_status[1], "NumberOfFailedSuboperations", 0)),
               Some(Get(final_status[1], "NumberOfWarningSuboperations", 0)))
  ELSE Outcome("returned", None, "UNKNOWN", None, None, None, None)

MainMoveReturn ==
  /\ mcaller = "main"
  /\ mpc = "returned"
  /\ moutcome' = MainMoveOutcome(mresults)
  /\ mpc' = "done"
  /\ UNCHANGED <<notMove, mcaller, massoc, msent, mreleases, mexc, mresults, foldi,
                 final_status_ds, num_completed, num_failed, num_warning>>
  /\ UNCHANGED netctx

\* the await is not inside any try: the exception leaves the tool
MainMoveEscapes ==
  /\ mcaller = "main"
  /\ mpc = "raised"
  /\ moutcome' = Outcome("escaped", None, mexc, None, None, None, None)
  /\ mpc' = "done"
  /\ UNCHANGED <<notMove, mcaller, massoc, msent, mreleases, mexc, mresults, foldi,
                 final_status_ds, num_completed, num_failed, num_warning>>
  /\ UNCHANGED netctx

\* ------------------------------------------------------------------------
\* api_main.py: retrieve_instance_via_cmove
\* ------------------------------------------------------------------------
\* num_x = status_ds_item.get("NumberOf...Suboperations", num_x)
FoldCounter(status_ds_item, key, current) == Get(status_ds_item, key, current)

\* final_status_ds = status_ds_item
FoldFinalStatus(status_ds_item, current) == Some(status_ds_item)

\* one iteration of: for status_ds_item, _ in move_responses:
ApiFoldStep ==
  /\ mcaller = "api_main"
  /\ mpc = "returned"
  /\ foldi < Len(mresults)
  /\ LET status_ds_item == mresults[foldi + 1] IN
       IF Truthy(status_ds_item)
       THEN /\ final_status_ds' = FoldFinalStatus(status_ds_item, final_status_ds)
            /\ num_completed' =
                 FoldCounter(status_ds_item, "NumberOfCompletedSuboperations", num_completed)
            /\ num_failed' =
                 FoldCounter(status_ds_item, "NumberOfFailedSuboperations", num_failed)
            /\ num_warning' =
                 FoldCounter(status_ds_item, "NumberOfWarningSuboperations", num_warning)
       ELSE UNCHANGED <<final_status_ds, num_completed, num_failed, num_warning>>
  /\ foldi' = foldi + 1
  /\ UNCHANGED <<notMove, mcaller, mpc, massoc, msent, mreleases, mexc, mresults, moutcome>>
  /\ UNCHANGED netctx

\* if final_status_ds and hasattr(final_status_ds, 'Status'): ... else: raise 502
\* Both HTTPException(502) are raised inside the try and caught by its
\* `except Exception`, which raises HTTPException(500) quoting them.
ApiMoveOutcome(final, c, f, w) ==
  IF final # None /\ Truthy(final[1]) /\ HasStatus(final[1])
  THEN LET status_val == final[1].Status[1] IN
       IF status_val = StatusSuccess
       THEN Outcome("returned", Some(202), "success", Some(status_val), Some(c), Some(f), Some(w))
       ELSE IF status_val = StatusPending
       THEN Outcome("returned", Some(202), "pending", Some(status_val), Some(c), Some(f), Some(w))
       ELSE Outcome("raised", Some(500), "failure", Some(status_val), Some(c), Some(f), Some(w))
  ELSE Outcome("raised", Some(500), "incomplete", None, None, None, None)

ApiMoveFinish ==
  /\ mcaller = "api_main"
  /\ mpc = "returned"
  /\ foldi = Len(mresults)
  /\ moutcome' = ApiMoveOutcome(final_status_ds, num_completed, num_failed, num_warning)
  /\ mpc' = "done"
  /\ UNCHANGED <<notMove, mcaller, massoc, msent, mreleases, mexc, mresults, foldi,
                 final_status_ds, num_completed, num_failed, num_warning>>
  /\ UNCHANGED netctx

\* except ConnectionError: raise HTTPException(503)
\* except Exception: raise HTTPException(500)
ApiMoveError ==
  /\ mcaller = "api_main"
  /\ mpc = "raised"
  /\ moutcome' = IF mexc = "ConnectionError"
                 THEN Outcome("raised", Some(503), "connection", None, None, None, None)
                 ELSE Outcome("raised", Some(500), "internal", None, None, None, None)
  /\ mpc' = "done"
  /\ UNCHANGED <<notMove, mcaller, massoc, msent, mreleases, mexc, mresults, foldi,
                 final_status_ds, num_completed, num_failed, num_warning>>
  /\ UNCHANGED netctx

\* ------------------------------------------------------------------------
\* C-FIND responses
\* ------------------------------------------------------------------------
\* An identifier dataset is the set of its elements; Dataset() is {}.
IdentifierA == {<<"StudyInstanceUID", "1.1">>}
IdentifierB == {<<"StudyInstanceUID", "1.2">>}

\* (status, identifier): status is the Status of the status dataset, None for
\* the Dataset() of an aborted or invalid response; identifier is None or a
\* dataset.
FindResponse(st, id) == [status |-> st, identifier |-> id]

FindResponses ==
  { FindResponse(Some(StatusPending), id) :
      id \in {None, Some({}), Some(IdentifierA), Some(IdentifierB)} }
  \cup { FindResponse(Some(StatusPendingWarning), Some(IdentifierA)) }
  \cup { FindResponse(Some(s), None) : s \in {StatusSuccess} \cup FailureCodes }
  \cup { FindResponse(None, None) }

FindInit ==
  /\ fpc = IF op = "find" THEN "start" ELSE "idle"
  /\ fassoc = "none"
  /\ fsent = FALSE
  /\ freleases = 0
  /\ fexc = "none"
  /\ fstream = <<>>
  /\ fresponses = <<>>
  /\ fidx = 0
  /\ fresults = <<>>
  /\ foutcome = [kind |-> "none", results |-> <<>>, error |-> "none"]

\* ------------------------------------------------------------------------
\* perform_c_find_async (query_model_uid = 'S')
\* ------------------------------------------------------------------------
\* the thread a blocking network step of perform_c_find_async runs on:
\* ae.associate, the helper that sends and drains the responses, and
\* assoc.release all go through asyncio.to_thread
FindContext(step) == <<step, "worker">>

\* assoc = await asyncio.to_thread(ae.associate, ...)
FindAssociate ==
  /\ fpc = "start"
  /\ \E ok \in BOOLEAN : fassoc' = IF ok THEN "established" ELSE "failed"
  /\ fpc' = "associated"
  /\ UNCHANGED <<notFind, fsent, freleases, fexc, fstream, fresponses, fidx,
                 fresults, foutcome>>
  /\ netctx' = netctx \cup {FindContext("associate")}

\* else: print("Asociación NO establecida."); return results
FindNotEstablished ==
  /\ fpc = "associated"
  /\ fassoc # "established"
  /\ fpc' = "returned"
  /\ UNCHANGED <<notFind, fassoc, fsent, freleases, fexc, fstream, fresponses,
                 fidx, fresults, foutcome>>
  /\ UNCHANGED netctx

\* _execute_c_find_and_convert_to_list: current_assoc.send_c_find(...)
FindSend ==
  /\ fpc = "associated"
  /\ fassoc = "established"
  /\ fsent' = TRUE
  /\ fpc' = "drain"
  /\ UNCHANGED <<notFind, fassoc, freleases, fexc, fstream, fresponses, fidx,
                 fresults, foutcome>>
  /\ netctx' = netctx \cup {FindContext("send")}

\* _execute_c_find_and_convert_to_list: list(responses_generator), one response
FindReceive ==
  /\ fpc = "drain"
  /\ Len(fstream) < MaxResponses
  /\ \E r \in FindResponses : fstream' = Append(fstream, r)
  /\ UNCHANGED <<notFind, fpc, fassoc, fsent, freleases, fexc, fresponses, fidx,
                 fresults, foutcome>>
  /\ netctx' = netctx \cup {FindContext("receive")}

\* the generator is exhausted: responses = await asyncio.to_thread(...)
FindDrained ==
  /\ fpc = "drain"
  /\ fresponses' = fstream
  /\ fpc' = "process"
  /\ UNCHANGED <<notFind, fassoc, fsent, freleases, fexc, fstream, fidx,
                 fresults, foutcome>>
  /\ UNCHANGED netctx

\* the worker-thread call raises (while sending or while draining):
\* except Exception as e: ...; raise
FindWorkerRaises ==
  /\ \/ fpc = "associated" /\ fassoc = "established" /\ \E b \in BOOLEAN : fsent' = b
     \/ fpc = "drain" /\ fsent' = fsent
  /\ fexc' = "Exception"
  /\ fpc' = "finally"
  /\ UNCHANGED <<notFind, fassoc, freleases, fstream, fresponses, fidx,
                 fresults, foutcome>>
  /\ netctx' = netctx \cup {FindContext(IF fpc = "associated" THEN "send" ELSE "receive")}

\* if status and status.Status in (0xFF00, 0xFF01):
IsPending(status) ==
  status # None /\ status[1] \in {StatusPending, StatusPendingWarning}

\* the body of: for (status, result_identifier_ds) in responses:
ProcessResponse(results, rsp) ==
  IF IsPending(rsp.status)
  THEN IF rsp.identifier # None /\ rsp.identifier[1] # {}
       THEN Append(results, rsp.identifier[1])
       ELSE results
  ELSE results

FindProcess ==
  /\ fpc = "process"
  /\ fidx < Len(fresponses)
  /\ fresults' = ProcessResponse(fresults, fresponses[fidx + 1])
  /\ fidx' = fidx + 1
  /\ UNCHANGED <<notFind, fpc, fassoc, fsent, freleases, fexc, fstream,
                 fresponses, foutcome>>
  /\ UNCHANGED netctx

\* the loop ends; control enters the finally clause
FindLoopEnd ==
  /\ fpc = "process"
  /\ fidx = Len(fresponses)
  /\ fpc' = "finally"
  /\ UNCHANGED <<notFind, fassoc, fsent, freleases, fexc, fstream, fresponses,
                 fidx, fresults, foutcome>>
  /\ UNCHANGED netctx

\* a finally clause after an except clause that logs without `raise`
FindReleaseSwallows ==
  /\ fpc = "finally"
  /\ fassoc' = "released"
  /\ freleases' = freleases + 1
  /\ fpc' = "returned"
  /\ UNCHANGED <<notFind, fsent, fexc, fstream, fresponses, fidx, fresults,
                 foutcome>>
  /\ netctx' = netctx \cup {FindContext("release")}

\* finally: await asyncio.to_thread(assoc.release); then return results, or
\* the exception re-raised by the except clause leaves the function
FindRelease ==
  /\ fpc = "finally"
  /\ fassoc' = "released"
  /\ freleases' = freleases + 1
  /\ fpc' = IF fexc = "none" THEN "returned" ELSE "raised"
  /\ UNCHANGED <<notFind, fsent, fexc, fstream, fresponses, fidx, fresults,
                 foutcome>>
  /\ netctx' = netctx \cup {FindContext("release")}

\* ------------------------------------------------------------------------
\* main.py: query_studies
\* ------------------------------------------------------------------------
\* results = await pacs_operations.perform_c_find_async(...)
\* return [StudyResponse.model_validate(ds, ...).model_dump() for ds in results]
\* The list is all the caller receives; nothing in it tells how the query ended.
QueryOutcome(results) == [kind |-> "returned", results |-> results, error |-> "none"]

QueryReturn ==
  /\ fpc = "returned"
  /\ foutcome' = QueryOutcome(fresults)
  /\ fpc' = "done"
  /\ UNCHANGED <<notFind, fassoc, fsent, freleases, fexc, fstream, fresponses,
                 fidx, fresults>>
  /\ UNCHANGED netctx

\* the await is not inside any try: the exception leaves the tool
QueryEscapes ==
  /\ fpc = "raised"
  /\ foutcome' = [kind |-> "escaped", results |-> <<>>, error |-> fexc]
  /\ fpc' = "done"
  /\ UNCHANGED <<notFind, fassoc, fsent, freleases, fexc, fstream, fresponses,
                 fidx, fresults>>
  /\ UNCHANGED netctx

FindNext ==
  \/ FindAssociate
  \/ FindNotEstablished
  \/ FindSend
  \/ FindReceive
  \/ FindDrained
  \/ FindWorkerRaises
  \/ FindProcess
  \/ FindLoopEnd
  \/ FindRelease
  \/ QueryReturn
  \/ QueryEscapes

MoveNext ==
  \/ MoveAssociate
  \/ MoveAssocFailed
  \/ MoveSend
  \/ MoveSendRaises
  \/ MoveReceive
  \/ MoveReceiveRaises
  \/ MoveRelease
  \/ MainMoveReturn
  \/ MainMoveEscapes
  \/ ApiFoldStep
  \/ ApiMoveFinish
  \/ ApiMoveError

\* ------------------------------------------------------------------------
\* Tag resolution
\* ------------------------------------------------------------------------
\* A token is the sequence of its characters.  The entries of pydicom's
\* attribute dictionary the builders use:
DicomDictionary ==
  { [keyword |-> "QueryRetrieveLevel", tag |-> <<8, 82>>,
     chars |-> <<"Q", "u", "e", "r", "y", "R", "e", "t", "r", "i", "e", "v", "e", "L", "e", "v", "e", "l">>],
    [keyword |-> "SOPInstanceUID", tag |-> <<8, 24>>,
     chars |-> <<"S", "O", "P", "I", "n", "s", "t", "a", "n", "c", "e", "U", "I", "D">>],
    [keyword |-> "Modality", tag |-> <<8, 96>>,
     chars |-> <<"M", "o", "d", "a", "l", "i", "t", "y">>],
    [keyword |-> "SeriesDescription", tag |-> <<8, 4158>>,
     chars |-> <<"S", "e", "r", "i", "e", "s", "D", "e", "s", "c", "r", "i", "p", "t", "i", "o", "n">>],
    [keyword |-> "PatientID", tag |-> <<16, 32>>,
     chars |-> <<"P", "a", "t", "i", "e", "n", "t", "I", "D">>],
    [keyword |-> "KVP", tag |-> <<24, 96>>,
     chars |-> <<"K", "V", "P">>],
    [keyword |-> "StudyInstanceUID", tag |-> <<32, 13>>,
     chars |-> <<"S", "t", "u", "d", "y", "I", "n", "s", "t", "a", "n", "c", "e", "U", "I", "D">>],
    [keyword |-> "SeriesInstanceUID", tag |-> <<32, 14>>,
     chars |-> <<"S", "e", "r", "i", "e", "s", "I", "n", "s", "t", "a", "n", "c", "e", "U", "I", "D">>],
    [keyword |-> "SeriesNumber", tag |-> <<32, 17>>,
     chars |-> <<"S", "e", "r", "i", "e", "s", "N", "u", "m", "b", "e", "r">>],
    [keyword |-> "PatientName", tag |-> <<16, 16>>,
     chars |-> <<"P", "a", "t", "i", "e", "n", "t", "N", "a", "m", "e">>],
    [keyword |-> "StudyDate", tag |-> <<8, 32>>,
     chars |-> <<"S", "t", "u", "d", "y", "D", "a", "t", "e">>],
    [keyword |-> "StudyDescription", tag |-> <<8, 4144>>,
     chars |-> <<"S", "t", "u", "d", "y", "D", "e", "s", "c", "r", "i", "p", "t", "i", "o", "n">>],
    [keyword |-> "ModalitiesInStudy", tag |-> <<8, 97>>,
     chars |-> <<"M", "o", "d", "a", "l", "i", "t", "i", "e", "s", "I", "n", "S", "t", "u", "d", "y">>],
    [keyword |-> "AccessionNumber", tag |-> <<8, 80>>,
     chars |-> <<"A", "c", "c", "e", "s", "s", "i", "o", "n", "N", "u", "m", "b", "e", "r">>],
    [keyword |-> "InstanceNumber", tag |-> <<32, 19>>,
     chars |-> <<"I", "n", "s", "t", "a", "n", "c", "e", "N", "u", "m", "b", "e", "r">>] }

Keywords == { d.keyword : d \in DicomDictionary }

\* the token spelling a keyword
KeywordToken(kw) == (CHOOSE d \in DicomDictionary : d.keyword = kw).chars

\* tag_for_keyword(key): None for a keyword the dictionary does not know
tag_for_keyword(key) ==
  IF \E d \in DicomDictionary : d.chars = key
  THEN Some((CHOOSE d \in DicomDictionary : d.chars = key).tag)
  ELSE None

\* keyword_for_tag(tag): None ("") for a tag the dictionary does not know
keyword_for_tag(tag) ==
  IF \E d \in DicomDictionary : d.tag = tag
  THEN Some((CHOOSE d \in DicomDictionary : d.tag = tag).keyword)
  ELSE None

\* ',' in key
HasComma(key) == \E i \in DOMAIN key : key[i] = ","

\* key.strip(chars)
RECURSIVE LStrip(_, _)
LStrip(key, chars) ==
  IF key # <<>> /\ Head(key) \in chars THEN LStrip(Tail(key), chars) ELSE key

RECURSIVE RStrip(_, _)
RStrip(key, chars) ==
  IF key # <<>> /\ key[Len(key)] \in chars
  THEN RStrip(SubSeq(key, 1, Len(key) - 1), chars)
  ELSE key

Strip(key, chars) == RStrip(LStrip(key, chars), chars)

\* key.split(','): the parts between the commas
RECURSIVE Split(_)
Split(key) ==
  IF ~HasComma(key) THEN <<key>>
  ELSE LET i == CHOOSE j \in DOMAIN key :
                  key[j] = "," /\ \A k \in 1..(j - 1) : key[k] # ","
       IN <<SubSeq(key, 1, i - 1)>> \o Split(SubSeq(key, i + 1, Len(key)))

UpperHex == <<"0", "1", "2", "3", "4", "5", "6", "7", "8", "9",
              "A", "B", "C", "D", "E", "F">>
LowerHex == <<"0", "1", "2", "3", "4", "5", "6", "7", "8", "9",
              "a", "b", "c", "d", "e", "f">>

IsHexDigit(c) == \E i \in 1..16 : UpperHex[i] = c \/ LowerHex[i] = c
HexDigit(c) == (CHOOSE i \in 1..16 : UpperHex[i] = c \/ LowerHex[i] = c) - 1

RECURSIVE HexValue(_)
HexValue(digits) ==
  IF digits = <<>> THEN 0
  ELSE 16 * HexValue(SubSeq(digits, 1, Len(digits) - 1))
         + HexDigit(digits[Len(digits)])

\* int(text, 16): None where Python raises ValueError (surrounding blanks
\* are accepted)
Int16(text) ==
  LET digits == Strip(text, {" "}) IN
  IF digits # <<>> /\ \A i \in DOMAIN digits : IsHexDigit(digits[i])
  THEN Some(HexValue(digits))
  ELSE None

\* group_str, elem_str = key.strip("() ").split(',')
\* tag_obj = Tag(int(group_str, 16), int(elem_str, 16))
\* None where this raises: not two parts, a part that is no hex number, or a
\* part above 0xFFFF (Tag raises OverflowError)
ParseHexPair(key) ==
  LET parts == Split(Strip(key, {"(", ")", " "})) IN
  IF Len(parts) # 2 THEN None
  ELSE IF Int16(parts[1]) = None \/ Int16(parts[2]) = None THEN None
  ELSE IF Int16(parts[1])[1] > 65535 \/ Int16(parts[2])[1] > 65535 THEN None
  ELSE Some(<<Int16(parts[1])[1], Int16(parts[2])[1]>>)

\* api_main.py, the filter loops: the tag a key resolves to, None when the
\* entry is skipped
ResolveApi(key) ==
  IF HasComma(key) THEN ParseHexPair(key) ELSE tag_for_keyword(key)

\* main.py: Tag(key) if ',' in str(key) else Tag(tag_for_keyword(str(key)))
\* pydicom's Tag(str) takes a hex number or a keyword: a string with a comma
\* is neither and raises ValueError; Tag(None) raises as well.
ResolveMain(key) ==
  IF HasComma(key) THEN None ELSE tag_for_keyword(key)

\* ------------------------------------------------------------------------
\* Query descriptor builders
\* ------------------------------------------------------------------------
\* STUDY-level query builders (api_main.py, main.py)
StudyEndpoints == {"find_studies_endpoint", "query_studies"}

\* builders that take hierarchy identifiers from the request path
ScopedEndpoints ==
  {"find_series_in_study", "find_instances_in_series", "query_series",
   "find_instances_in_series_new", "query_instances"}

\* the IMAGE-level query builders: find_instances_in_series of api_main.py,
\* find_instances_in_series of api_main_new.py, query_instances of main.py
InstanceEndpoints ==
  {"find_instances_in_series", "find_instances_in_series_new", "query_instances"}

\* the tools of main.py
MainEndpoints == {"query_series", "query_studies", "query_instances"}

\* retrieve (C-MOVE) descriptor builders (api_main.py, main.py)
MoveEndpoints == {"retrieve_instance_via_cmove", "move_dicom_entity_to_local_server"}

Endpoints == StudyEndpoints \cup ScopedEndpoints \cup MoveEndpoints

\* the hierarchy identifiers of the request path
study_instance_uid == "1.2"
series_instance_uid == "1.2.3"

EmptyIdentifier == [kw \in Keywords |-> None]

\* setattr(identifier, kw, val) for each kw of kws
SetAll(ds, kws, val) == [kw \in Keywords |-> IF kw \in kws THEN Some(val) ELSE ds[kw]]

\* base_return_fields of the STUDY builders
base_return_fields ==
  {"StudyInstanceUID", "PatientID", "PatientName", "StudyDate",
   "StudyDescription", "ModalitiesInStudy", "AccessionNumber"}

\* the descriptor before the named and generic filters are applied
BaseIdentifier(ep) ==
  IF ep \in StudyEndpoints
  THEN [SetAll(EmptyIdentifier, base_return_fields, "")
          EXCEPT !["QueryRetrieveLevel"] = Some("STUDY")]
  ELSE IF ep = "find_series_in_study"
  THEN [SetAll(EmptyIdentifier,
               {"SeriesInstanceUID", "Modality", "SeriesNumber", "SeriesDescription"}, "")
          EXCEPT !["QueryRetrieveLevel"] = Some("SERIES"),
                 !["StudyInstanceUID"] = Some(study_instance_uid)]
  ELSE IF ep = "query_series"
  THEN [SetAll(EmptyIdentifier,
               {"SeriesInstanceUID", "Modality", "SeriesNumber", "SeriesDescription", "KVP"}, "")
          EXCEPT !["QueryRetrieveLevel"] = Some("SERIES"),
                 !["StudyInstanceUID"] = Some(study_instance_uid)]
  ELSE [SetAll(EmptyIdentifier, {"SOPInstanceUID", "InstanceNumber"}, "")
          EXCEPT !["QueryRetrieveLevel"] = Some("IMAGE"),
                 !["StudyInstanceUID"] = Some(study_instance_uid),
                 !["SeriesInstanceUID"] = Some(series_instance_uid)]

\* the named filter parameters of the STUDY builders; query_studies of
\* main.py has no ModalitiesInStudy parameter
AllNamedKeys ==
  {"PatientID", "StudyDate", "AccessionNumber", "ModalitiesInStudy", "PatientName"}

NamedKeys(ep) ==
  IF ep = "find_studies_endpoint" THEN AllNamedKeys
  ELSE AllNamedKeys \ {"ModalitiesInStudy"}

\* api_main.py: `if PatientID_param is not None`; main.py: `if patient_id`
Provided(ep, v) ==
  IF ep = "find_studies_endpoint" THEN v # None
  ELSE v # None /\ v[1] # ""

\* if <param provided>: identifier.<kw> = <param>, for each named parameter
ApplyNamed(ep, ds, nm) ==
  [kw \in Keywords |->
     IF kw \in NamedKeys(ep) /\ Provided(ep, nm[kw]) THEN nm[kw] ELSE ds[kw]]

NoNamed == [kw \in AllNamedKeys |-> None]

NamedInputs ==
  { [NoNamed EXCEPT !["PatientID"] = p, !["StudyDate"] = d] :
      p \in {None, Some(""), Some("A1")}, d \in {None, Some("20240101")} }

\* the resolver each endpoint's filter loop uses
Resolve(ep, key) ==
  IF ep \in MainEndpoints THEN ResolveMain(key) ELSE ResolveApi(key)

\* the exception one iteration of the filter loop raises inside its try
\* block, "none" when it raises nothing
\*   api_main.py: unpacking a split with other than two parts and int(.., 16)
\*     of a non-hex text raise ValueError; Tag() of a number above 0xFFFF
\*     raises OverflowError; identifier[tag_obj] = value with a plain value
\*     raises TypeError; an unknown keyword is skipped by `continue`
\*   api_main_new.py: as api_main.py, but a tag without keyword goes to
\*     setattr(identifier, str(tag_obj), value), which raises nothing and
\*     sets no element
\*   main.py: Tag(key) of a text with a comma raises ValueError; Tag(None)
\*     raises TypeError
FilterException(ep, key) ==
  IF ep \in MainEndpoints
  THEN IF HasComma(key) THEN "ValueError"
       ELSE IF tag_for_keyword(key) = None THEN "TypeError"
       ELSE "none"
  ELSE IF HasComma(key)
       THEN LET parts == Split(Strip(key, {"(", ")", " "})) IN
            IF Len(parts) # 2 THEN "ValueError"
            ELSE IF Int16(parts[1]) = None \/ Int16(parts[2]) = None THEN "ValueError"
            ELSE IF Int16(parts[1])[1] > 65535 \/ Int16(parts[2])[1] > 65535
                 THEN "OverflowError"
            ELSE IF /\ ep # "find_instances_in_series_new"
                    /\ keyword_for_tag(<<Int16(parts[1])[1], Int16(parts[2])[1]>>) = None
                 THEN "TypeError"
            ELSE "none"
       ELSE "none"

\* a loop whose only except clause is `except ValueError`
ExceptClausesValueErrorOnly(ep) == {"ValueError"}

\* the except clauses around one iteration of the filter (and field) loop
ExceptClauses(ep) ==
  IF ep \in MainEndpoints THEN {"Exception"}
  ELSE {"ValueError", "Exception"}

\* an exception is handled inside the loop when a clause names it or names
\* Exception, the base class of the three
Caught(ep, exc) == exc \in ExceptClauses(ep) \/ "Exception" \in ExceptClauses(ep)

\* one iteration of: for key, value in filter_dict.items():
\* A tag without a keyword goes to identifier[tag_obj] = value, which raises
\* TypeError (the value is no DataElement); the except clause skips the entry.
ApplyFilter(ep, ds, key, value) ==
  LET tag_obj == Resolve(ep, key) IN
  IF tag_obj = None THEN ds
  ELSE LET dicom_keyword == keyword_for_tag(tag_obj[1]) IN
       IF dicom_keyword = None THEN ds
       ELSE [ds EXCEPT ![dicom_keyword[1]] = Some(value)]

\* one iteration of: for field_str_raw in fields:
\* `tag_from_field not in identifier or identifier.get(tag_from_field, "") == ""`
\* is true only for a tag not in the identifier: get(tag) returns the
\* DataElement, which never equals "".
ApplyField(ds, field_str) ==
  LET tag_from_field == ResolveApi(field_str) IN
  IF tag_from_field = None THEN ds
  ELSE LET dicom_keyword_for_field == keyword_for_tag(tag_from_field[1]) IN
       IF dicom_keyword_for_field = None THEN ds
       ELSE IF ds[dicom_keyword_for_field[1]] = None
       THEN [ds EXCEPT ![dicom_keyword_for_field[1]] = Some("")]
       ELSE ds

\* api_main_new.py: group, elem = field_str.split(',') with no strip, then
\* Tag(int(group, 16), int(elem, 16)); None where this raises
ParseHexPairNoStrip(field_str) ==
  LET parts == Split(field_str) IN
  IF Len(parts) # 2 THEN None
  ELSE IF Int16(parts[1]) = None \/ Int16(parts[2]) = None THEN None
  ELSE IF Int16(parts[1])[1] > 65535 \/ Int16(parts[2])[1] > 65535 THEN None
  ELSE Some(<<Int16(parts[1])[1], Int16(parts[2])[1]>>)

\* api_main_new.py, the 'fields' loop: the tag a field resolves to
ResolveFieldNew(field_str) ==
  IF HasComma(field_str) THEN ParseHexPairNoStrip(field_str)
  ELSE tag_for_keyword(field_str)

\* `tag in identifier` for a tag: only dictionary attributes are ever set
InIdentifier(ds, tag) ==
  keyword_for_tag(tag) # None /\ ds[keyword_for_tag(tag)[1]] # None

\* the exception one iteration of the 'fields' loop raises inside its try
\* block, "none" when it raises nothing
\*   api_main.py: the same statements as its filter loop
\*   api_main_new.py: the split and int() raise ValueError, Tag() raises
\*     OverflowError, and for a resolved tag that is not in the identifier
\*     `identifier[tag_to_add] = ""` raises TypeError (the value is no
\*     DataElement)
\*   main.py: Tag(field_str) of a text with a comma raises ValueError,
\*     Tag(None) of an unknown keyword raises TypeError
FieldException(ep, ds, field_str) ==
  IF ep = "find_instances_in_series_new"
  THEN IF HasComma(field_str)
       THEN LET parts == Split(field_str) IN
            IF Len(parts) # 2 THEN "ValueError"
            ELSE IF Int16(parts[1]) = None \/ Int16(parts[2]) = None THEN "ValueError"
            ELSE IF Int16(parts[1])[1] > 65535 \/ Int16(parts[2])[1] > 65535
                 THEN "OverflowError"
            ELSE IF ~InIdentifier(ds, ParseHexPairNoStrip(field_str)[1]) THEN "TypeError"
            ELSE "none"
       ELSE IF tag_for_keyword(field_str) = None THEN "none"
       ELSE IF ~InIdentifier(ds, tag_for_keyword(field_str)[1]) THEN "TypeError"
       ELSE "none"
  ELSE FilterException(ep, field_str)

\* api_main_new.py, one iteration of: for field_str in fields:
\* the only statement that would change the identifier is
\* `identifier[tag_to_add] = ""`, reached for a tag not in the identifier,
\* and it raises before it stores anything
ApplyFieldNew(ds, field_str) ==
  LET tag_to_add == ResolveFieldNew(field_str) IN
  IF tag_to_add = None THEN ds
  ELSE IF ~InIdentifier(ds, tag_to_add[1]) THEN ds
  ELSE ds

\* main.py, one iteration of: for field_str in set(fields_to_retrieve):
\* `if keyword and not hasattr(identifier, keyword): setattr(identifier, keyword, "")`
ApplyFieldMain(ds, field_str) ==
  LET tag_from_field == ResolveMain(field_str) IN
  IF tag_from_field = None THEN ds
  ELSE LET keyword == keyword_for_tag(tag_from_field[1]) IN
       IF keyword = None THEN ds
       ELSE IF ds[keyword[1]] = None
       THEN [ds EXCEPT ![keyword[1]] = Some("")]
       ELSE ds

\* the 'fields' loop of each IMAGE-level builder
ApplyFieldOf(ep, ds, field_str) ==
  IF ep = "find_instances_in_series_new" THEN ApplyFieldNew(ds, field_str)
  ELSE IF ep = "query_instances" THEN ApplyFieldMain(ds, field_str)
  ELSE ApplyField(ds, field_str)

TokSeriesHex == <<"(", "0", "0", "2", "0", ",", "0", "0", "0", "E", ")">>
TokStudyHex == <<"0", "0", "2", "0", ",", "0", "0", "0", "d">>
TokLevelHex == <<"(", "0", "0", "0", "8", ",", "0", "0", "5", "2", ")">>
TokPatientHex == <<"0", "0", "1", "0", ",", "0", "0", "2", "0">>
TokUnknownKeyword == <<"B", "o", "g", "u", "s">>
TokNonHex == <<"Z", "Z", "Z", "Z", ",", "0", "0", "1", "0">>
TokPrivateHex == <<"0", "0", "0", "9", ",", "0", "0", "1", "0">>
TokOneComponent == <<"0", "0", "1", "0">>
TokThreeComponents == <<"a", ",", "b", ",", "c">>
TokUnbalanced == <<"(", "0", "0", "1", "0", ",", "0", "0", "2", "0">>
TokKVPHex == <<"0", "0", "1", "8", ",", "0", "0", "6", "0">>

\* filter entries naming a hierarchy identifier, with an empty or another value
HierarchyEntries ==
  { <<t, v>> : t \in {KeywordToken("StudyInstanceUID"), TokStudyHex,
                      KeywordToken("SeriesInstanceUID"), TokSeriesHex},
               v \in {"", "9.9"} }

OtherEntries ==
  { <<KeywordToken("QueryRetrieveLevel"), "STUDY">>, <<TokLevelHex, "STUDY">>,
    <<KeywordToken("KVP"), "70">>, <<TokUnknownKeyword, "x">>,
    <<TokNonHex, "x">>, <<TokPrivateHex, "x">>,
    <<KeywordToken("PatientID"), "B2">>, <<TokPatientHex, "B2">>,
    <<TokOneComponent, "x">>, <<TokThreeComponents, "x">>, <<TokUnbalanced, "B2">> }

FilterEntries == HierarchyEntries \cup OtherEntries

\* a JSON object / dict: no key twice, in insertion order
FilterMaps ==
  UNION { { m \in [1..n -> FilterEntries] :
              \A i, j \in 1..n : i # j => m[i][1] # m[j][1] } : n \in 0..MaxFilters }

FieldTokens ==
  {KeywordToken("SeriesInstanceUID"), KeywordToken("KVP"), TokKVPHex, TokNonHex,
   TokUnbalanced}

FieldLists == UNION { [1..n -> FieldTokens] : n \in 0..MaxFields }

\* MoveRequest: study_instance_uid: str, series_instance_uid and
\* sop_instance_uid: Optional[str]
NoRequest == [study |-> "", series |-> None, sop |-> None]

MoveRequests ==
  [study : {"", "1.2"}, series : {None, Some(""), Some("1.2.3")},
   sop : {None, Some(""), Some("1.2.3.4")}]

\* Python truth of an Optional[str]
NonEmpty(v) == v # None /\ v[1] # ""

\* the descriptor a retrieve endpoint builds from its request, None where
\* the endpoint rejects the request (HTTP 400) instead
MoveIdentifier(ep, req) ==
  LET base == [EmptyIdentifier EXCEPT !["StudyInstanceUID"] = Some(req.study)] IN
  IF NonEmpty(req.sop)
  THEN IF ~NonEmpty(req.series) THEN None
       ELSE Some([base EXCEPT !["QueryRetrieveLevel"] = Some("IMAGE"),
                              !["SeriesInstanceUID"] = req.series,
                              !["SOPInstanceUID"] = req.sop])
  ELSE IF NonEmpty(req.series)
  THEN IF ep = "retrieve_instance_via_cmove"
       THEN Some([base EXCEPT !["QueryRetrieveLevel"] = Some("SERIES"),
                              !["SeriesInstanceUID"] = req.series,
                              !["SOPInstanceUID"] = Some("")])
       ELSE Some([base EXCEPT !["QueryRetrieveLevel"] = Some("SERIES"),
                              !["SeriesInstanceUID"] = req.series])
  ELSE IF ep = "retrieve_instance_via_cmove"
  THEN IF req.study # ""
       THEN Some([base EXCEPT !["QueryRetrieveLevel"] = Some("STUDY"),
                              !["SeriesInstanceUID"] = Some(""),
                              !["SOPInstanceUID"] = Some("")])
       ELSE None
  ELSE Some([base EXCEPT !["QueryRetrieveLevel"] = Some("STUDY")])

BuildInit ==
  /\ endpoint \in IF op = "build" THEN Endpoints ELSE {"none"}
  /\ bpc = IF op = "build" THEN "start" ELSE "idle"
  /\ filters \in IF endpoint \in (StudyEndpoints \cup ScopedEndpoints) \ {"query_instances"}
                 THEN FilterMaps ELSE {<<>>}
  /\ fields \in IF endpoint \in InstanceEndpoints THEN FieldLists ELSE {<<>>}
  /\ named \in IF endpoint \in StudyEndpoints THEN NamedInputs ELSE {NoNamed}
  /\ request \in IF endpoint \in MoveEndpoints THEN MoveRequests ELSE {NoRequest}
  /\ bidx = 0
  /\ identifier = EmptyIdentifier

binputs == <<endpoint, filters, fields, named, request>>

\* identifier = DicomDataset(); level, hierarchy identifiers, return keys
BuildBase ==
  /\ bpc = "start"
  /\ endpoint \in StudyEndpoints \cup ScopedEndpoints
  /\ identifier' = BaseIdentifier(endpoint)
  /\ bpc' = IF endpoint \in StudyEndpoints THEN "named" ELSE "filters"
  /\ UNCHANGED <<notBuild, binputs, bidx>>

\* the named filters of a STUDY query
BuildNamed ==
  /\ bpc = "named"
  /\ identifier' = ApplyNamed(endpoint, identifier, named)
  /\ bpc' = "filters"
  /\ UNCHANGED <<notBuild, binputs, bidx>>

\* one entry of the generic filter map; an exception no except clause of the
\* loop handles leaves the endpoint
BuildFilter ==
  /\ bpc = "filters"
  /\ bidx < Len(filters)
  /\ LET key == filters[bidx + 1][1]
         value == filters[bidx + 1][2]
         exc == FilterException(endpoint, key)
     IN IF exc # "none" /\ ~Caught(endpoint, exc)
        THEN /\ bpc' = "failed"
             /\ UNCHANGED <<bidx, identifier>>
        ELSE /\ identifier' = ApplyFilter(endpoint, identifier, key, value)
             /\ bidx' = bidx + 1
             /\ bpc' = bpc
  /\ UNCHANGED <<notBuild, binputs>>

\* the filter loop ends; the IMAGE-level builders go on to 'fields'
BuildFiltersDone ==
  /\ bpc = "filters"
  /\ bidx = Len(filters)
  /\ bpc' = IF endpoint \in InstanceEndpoints THEN "fields" ELSE "built"
  /\ bidx' = 0
  /\ UNCHANGED <<notBuild, binputs, identifier>>

\* one entry of the 'fields' list
BuildField ==
  /\ bpc = "fields"
  /\ bidx < Len(fields)
  /\ LET exc == FieldException(endpoint, identifier, fields[bidx + 1])
     IN IF exc # "none" /\ ~Caught(endpoint, exc)
        THEN /\ bpc' = "failed"
             /\ UNCHANGED <<bidx, identifier>>
        ELSE /\ identifier' = ApplyFieldOf(endpoint, identifier, fields[bidx + 1])
             /\ bidx' = bidx + 1
             /\ bpc' = bpc
  /\ UNCHANGED <<notBuild, binputs>>

BuildFieldsDone ==
  /\ bpc = "fields"
  /\ bidx = Len(fields)
  /\ bpc' = "built"
  /\ UNCHANGED <<notBuild, binputs, bidx, identifier>>

\* a retrieve endpoint builds its descriptor, or answers 400 before it
\* calls perform_c_move_async
BuildMove ==
  /\ bpc = "start"
  /\ endpoint \in MoveEndpoints
  /\ LET built == MoveIdentifier(endpoint, request)
     IN IF built = None
        THEN /\ bpc' = "rejected"
             /\ UNCHANGED identifier
        ELSE /\ bpc' = "built"
             /\ identifier' = built[1]
  /\ UNCHANGED <<notBuild, binputs, bidx>>

BuildNext ==
  \/ BuildBase
  \/ BuildNamed
  \/ BuildFilter
  \/ BuildFiltersDone
  \/ BuildField
  \/ BuildFieldsDone
  \/ BuildMove

\* ------------------------------------------------------------------------
\* Storage receiver: dicom_scp.handle_store
\* ------------------------------------------------------------------------
\* pynetdicom runs the handler on the thread of the association that
\* delivers the object: two associations give two concurrent handlers
Handlers == {1, 2}

UIDs == {"1.2.3", "1.2.4"}

\* a receiver that writes every delivery under the same name
FilenameIgnoresUID(uid) == <<"received", ".dcm">>

\* filename = ds.SOPInstanceUID + ".dcm"
Filename(uid) == <<uid, ".dcm">>

\* the storage directory: file name -> content; a content is the sequence
\* of the parts of the file, each the number of the delivery whose write put
\* it there (0 for a gap no write has filled); an object is written in two
\* parts, its head and its tail
EmptyDirectory == [f \in {} |-> <<>>]

\* the content after a write of part `pos` of delivery n through a file
\* object of its own: the parts before and after `pos` stay as they are, a
\* write past the end leaves a gap
WritePart(content, pos, n) ==
  [i \in 1..(IF Len(content) > pos THEN Len(content) ELSE pos) |->
     IF i = pos THEN n ELSE IF i <= Len(content) THEN content[i] ELSE 0]

\* the complete object of delivery n
WholeObject(n) == <<n, n>>

\* the directory after the file `name` was given `content`
WriteFile(dir, name, content) ==
  [f \in DOMAIN dir \cup {name} |-> IF f = name THEN content ELSE dir[f]]

\* a C-STORE event: whether event.dataset decodes, the SOPInstanceUID of the
\* dataset (None: no such element), whether it has a SOPClassUID, and what
\* the disk does to save_as: "ok" | "open_fails" | "write_fails"; n is
\* the number of the delivery
StoreEvent(dec, uid, cls, disk) ==
  [decodable |-> dec, uid |-> uid, cls |-> cls, disk |-> disk, n |-> 0]

NoEvent == StoreEvent(FALSE, None, FALSE, "none")

\* the failing deliveries all carry the first UID; the UIDs are alike
StoreEvents ==
  {StoreEvent(FALSE, None, FALSE, "ok"), StoreEvent(TRUE, None, TRUE, "ok"),
   StoreEvent(TRUE, Some("1.2.3"), FALSE, "ok"),
   StoreEvent(TRUE, Some("1.2.3"), TRUE, "open_fails"),
   StoreEvent(TRUE, Some("1.2.3"), TRUE, "write_fails")}
  \cup { StoreEvent(TRUE, Some(u), TRUE, "ok") : u \in UIDs }

StoreInit ==
  /\ hpc = [h \in Handlers |-> "idle"]
  /\ hevent = [h \in Handlers |-> NoEvent]
  /\ htouched = [h \in Handlers |-> FALSE]
  /\ storage = EmptyDirectory
  /\ delivered = 0
  /\ hlog = <<>>

\* what the log keeps of a handled event; outcome is Some(status) for a
\* returned status code and None when an exception left the handler
Handled(h, outcome) ==
  [event |-> hevent[h], outcome |-> outcome, touched |-> htouched[h]]

\* pynetdicom triggers evt.EVT_C_STORE: handle_store(event) is entered; n
\* numbers the deliveries, so that the object of each one is distinct
StoreArrive(h, ev) ==
  /\ op = "store"
  /\ hpc[h] = "idle"
  /\ delivered < MaxEvents
  /\ hevent' = [hevent EXCEPT ![h] = [ev EXCEPT !.n = delivered + 1]]
  /\ htouched' = [htouched EXCEPT ![h] = FALSE]
  /\ hpc' = [hpc EXCEPT ![h] = "entered"]
  /\ delivered' = delivered + 1
  /\ UNCHANGED <<notStore, storage, hlog>>

\* ds = event.dataset: decoding raises for a dataset that cannot be decoded
HsDecode(h) ==
  /\ hpc[h] = "entered"
  /\ hpc' = [hpc EXCEPT ![h] = IF hevent[h].decodable THEN "decoded" ELSE "except"]
  /\ UNCHANGED <<notStore, hevent, htouched, storage, delivered, hlog>>

\* a handler without the SOPInstanceUID check that stores the object under
\* the name of an empty identifier
HsCheckUIDStoresAnyway(h) ==
  /\ hpc[h] = "decoded"
  /\ IF hevent[h].uid = None
     THEN /\ storage' = WriteFile(storage, Filename(""), WholeObject(hevent[h].n))
          /\ htouched' = [htouched EXCEPT ![h] = TRUE]
          /\ hpc' = [hpc EXCEPT ![h] = "written"]
     ELSE /\ hpc' = [hpc EXCEPT ![h] = "meta"]
          /\ UNCHANGED <<storage, htouched>>
  /\ UNCHANGED <<notStore, hevent, delivered, hlog>>

\* if not hasattr(ds, 'SOPInstanceUID'): return 0xA801
HsCheckUID(h) ==
  /\ hpc[h] = "decoded"
  /\ IF hevent[h].uid = None
     THEN /\ hlog' = Append(hlog, Handled(h, Some(StatusNoInstanceUID)))
          /\ hpc' = [hpc EXCEPT ![h] = "idle"]
     ELSE /\ hpc' = [hpc EXCEPT ![h] = "meta"]
          /\ UNCHANGED hlog
  /\ UNCHANGED <<notStore, hevent, htouched, storage, delivered>>

\* meta.MediaStorageSOPClassUID = ds.SOPClassUID
\* meta.MediaStorageSOPInstanceUID = ds.SOPInstanceUID
\* an element the dataset lacks raises AttributeError
HsMeta(h) ==
  /\ hpc[h] = "meta"
  /\ hpc' = [hpc EXCEPT ![h] = IF hevent[h].cls /\ hevent[h].uid # None
                               THEN "save" ELSE "except"]
  /\ UNCHANGED <<notStore, hevent, htouched, storage, delivered, hlog>>

\* ds.save_as(filepath): the file is created or truncated ...
HsOpen(h) ==
  /\ hpc[h] = "save"
  /\ IF hevent[h].disk = "open_fails"
     THEN /\ hpc' = [hpc EXCEPT ![h] = "except"]
          /\ UNCHANGED <<storage, htouched>>
     ELSE /\ storage' = WriteFile(storage, Filename(hevent[h].uid[1]), <<>>)
          /\ htouched' = [htouched EXCEPT ![h] = TRUE]
          /\ hpc' = [hpc EXCEPT ![h] = "opened"]
  /\ UNCHANGED <<notStore, hevent, delivered, hlog>>

\* ... and the object is written into it through the handler's own file
\* object, one buffer at a time: first the head of the object ...
HsWrite(h) ==
  /\ hpc[h] = "opened"
  /\ IF hevent[h].disk = "write_fails"
     THEN /\ hpc' = [hpc EXCEPT ![h] = "except"]
          /\ UNCHANGED storage
     ELSE /\ LET name == Filename(hevent[h].uid[1]) IN
             storage' = WriteFile(storage, name, WritePart(storage[name], 1, hevent[h].n))
          /\ hpc' = [hpc EXCEPT ![h] = "head"]
  /\ UNCHANGED <<notStore, hevent, htouched, delivered, hlog>>

\* ... then its tail, at the offset of this handler's file object
HsWriteTail(h) ==
  /\ hpc[h] = "head"
  /\ LET name == Filename(hevent[h].uid[1]) IN
     storage' = WriteFile(storage, name, WritePart(storage[name], 2, hevent[h].n))
  /\ hpc' = [hpc EXCEPT ![h] = "written"]
  /\ UNCHANGED <<notStore, hevent, htouched, delivered, hlog>>

\* return 0x0000
HsReturnSuccess(h) ==
  /\ hpc[h] = "written"
  /\ hlog' = Append(hlog, Handled(h, Some(StatusSuccess)))
  /\ hpc' = [hpc EXCEPT ![h] = "idle"]
  /\ UNCHANGED <<notStore, hevent, htouched, storage, delivered>>

\* except Exception as e:
\*     sop_uid_for_log = getattr(event.dataset, 'SOPInstanceUID', ...)
\*     return 0xC001
\* event.dataset is evaluated again: the decoding of a dataset that could
\* not be decoded raises again, inside the except clause
HsExcept(h) ==
  /\ hpc[h] = "except"
  /\ hlog' = Append(hlog, Handled(h, IF hevent[h].decodable
                                     THEN Some(StatusCannotProcess) ELSE None))
  /\ hpc' = [hpc EXCEPT ![h] = "idle"]
  /\ UNCHANGED <<notStore, hevent, htouched, storage, delivered>>

StoreNext ==
  \/ \E h \in Handlers, ev \in StoreEvents : StoreArrive(h, ev)
  \/ \E h \in Handlers : HsDecode(h)
  \/ \E h \in Handlers : HsCheckUID(h)
  \/ \E h \in Handlers : HsMeta(h)
  \/ \E h \in Handlers : HsOpen(h)
  \/ \E h \in Handlers : HsWrite(h)
  \/ \E h \in Handlers : HsWriteTail(h)
  \/ \E h \in Handlers : HsReturnSuccess(h)
  \/ \E h \in Handlers : HsExcept(h)

\* ------------------------------------------------------------------------
\* Listener lifecycle: main.lifespan and dicom_scp.start_scp_server
\* ------------------------------------------------------------------------
ListenerInit ==
  /\ tpc = "unstarted"
  /\ ae_scp = "None"
  /\ hookpc = IF op = "listener" THEN "init" ELSE "idle"
  /\ starts = 0
  /\ shutdown_requested = FALSE

\* ae_scp.is_running, read by the shutdown hook: the server is serving
is_running == tpc = "serving"

\* lifespan, startup: scp_thread = threading.Thread(...); scp_thread.start()
LifespanStart ==
  /\ hookpc = "init"
  /\ tpc' = "entered"
  /\ starts' = starts + 1
  /\ hookpc' = "yielded"
  /\ UNCHANGED <<notListener, ae_scp, shutdown_requested>>

\* start_scp_server: ae_scp = AE(ae_title=aet)
ThreadPublish ==
  /\ tpc = "entered"
  /\ ae_scp' = "AE"
  /\ tpc' = "published"
  /\ UNCHANGED <<notListener, hookpc, starts, shutdown_requested>>

\* ae_scp.start_server(..., block=True): the listener serves
ThreadServe ==
  /\ tpc = "published"
  /\ tpc' = "serving"
  /\ UNCHANGED <<notListener, ae_scp, hookpc, starts, shutdown_requested>>

\* start_server raises (the port is taken): except Exception, finally
ThreadServeFails ==
  /\ tpc = "published"
  /\ tpc' = "stopped"
  /\ UNCHANGED <<notListener, ae_scp, hookpc, starts, shutdown_requested>>

\* start_server returns after ae_scp.shutdown()
ThreadStop ==
  /\ tpc = "serving"
  /\ shutdown_requested
  /\ tpc' = "stopped"
  /\ UNCHANGED <<notListener, ae_scp, hookpc, starts, shutdown_requested>>

\* lifespan, shutdown:
\*   if hasattr(dicom_scp, 'ae_scp') and dicom_scp.ae_scp and
\*      dicom_scp.ae_scp.is_running: dicom_scp.ae_scp.shutdown()
HookShutdown ==
  /\ hookpc = "yielded"
  /\ shutdown_requested' = (ae_scp = "AE" /\ is_running)
  /\ hookpc' = "joining"
  /\ UNCHANGED <<notListener, tpc, ae_scp, starts>>

\* scp_thread.join(timeout=10.0) returns: the thread ended or the time ran
\* out
HookJoin ==
  /\ hookpc = "joining"
  /\ hookpc' = "done"
  /\ UNCHANGED <<notListener, tpc, ae_scp, starts, shutdown_requested>>

ListenerNext ==
  \/ LifespanStart
  \/ ThreadPublish
  \/ ThreadServe
  \/ ThreadServeFails
  \/ ThreadStop
  \/ HookShutdown
  \/ HookJoin

\* ------------------------------------------------------------------------
\* Concurrent operations: several perform_c_find_async / perform_c_move_async
\* calls in flight on the same event loop
\* ------------------------------------------------------------------------
Operations == {1, 2}

\* one association object shared by all calls (a pooled association)
AssocPooled(i) == 1

\* the association object call i works on: `ae = AE(...)` and
\* `assoc = ... ae.associate ...` are locals of the call, so every call has
\* an object of its own
AssocOf(i) == i

NoAssociations == [a \in {} |-> "none"]

\* the association object a is in state st
SetAssoc(as, a, st) == [b \in DOMAIN as \cup {a} |-> IF b = a THEN st ELSE as[b]]

NoResult == [kind |-> "none", data |-> <<>>]

ConcurrentInit ==
  /\ ckind \in IF op = "concurrent" THEN [Operations -> {"find", "move"}]
               ELSE {[i \in Operations |-> "none"]}
  /\ cpc = [i \in Operations |-> IF op = "concurrent" THEN "start" ELSE "idle"]
  /\ assocs = NoAssociations
  /\ cresult = [i \in Operations |-> NoResult]

\* assoc = await ... ae.associate(...)
CAssociate(i) ==
  /\ cpc[i] = "start"
  /\ \E ok \in BOOLEAN :
       assocs' = SetAssoc(assocs, AssocOf(i), IF ok THEN "established" ELSE "failed")
  /\ cpc' = [cpc EXCEPT ![i] = "associated"]
  /\ UNCHANGED <<notConcurrent, ckind, cresult>>

\* the association is not established: perform_c_find_async returns its
\* empty results, perform_c_move_async raises ConnectionError
CNotEstablished(i) ==
  /\ cpc[i] = "associated"
  /\ assocs[AssocOf(i)] # "established"
  /\ cresult' = [cresult EXCEPT ![i] =
                   IF ckind[i] = "find" THEN [kind |-> "returned", data |-> <<>>]
                   ELSE [kind |-> "raised", data |-> <<>>]]
  /\ cpc' = [cpc EXCEPT ![i] = "done"]
  /\ UNCHANGED <<notConcurrent, ckind, assocs>>

\* the request is sent and its responses are collected into results
CExchange(i) ==
  /\ cpc[i] = "associated"
  /\ assocs[AssocOf(i)] = "established"
  /\ cresult' = [cresult EXCEPT ![i] = [kind |-> "pending", data |-> <<i>>]]
  /\ cpc' = [cpc EXCEPT ![i] = "exchanged"]
  /\ UNCHANGED <<notConcurrent, ckind, assocs>>

\* the exchange raises: perform_c_find_async goes through its finally
\* clause, perform_c_move_async is left at once
CExchangeRaises(i) ==
  /\ cpc[i] = "associated"
  /\ assocs[AssocOf(i)] = "established"
  /\ cresult' = [cresult EXCEPT ![i] = [kind |-> "raised", data |-> <<>>]]
  /\ cpc' = [cpc EXCEPT ![i] = IF ckind[i] = "find" THEN "exchanged" ELSE "done"]
  /\ UNCHANGED <<notConcurrent, ckind, assocs>>

\* assoc.release(), then return results (or the re-raised exception)
CRelease(i) ==
  /\ cpc[i] = "exchanged"
  /\ assocs' = SetAssoc(assocs, AssocOf(i), "released")
  /\ cresult' = [cresult EXCEPT ![i] =
                   IF cresult[i].kind = "pending"
                   THEN [kind |-> "returned", data |-> cresult[i].data]
                   ELSE cresult[i]]
  /\ cpc' = [cpc EXCEPT ![i] = "done"]
  /\ UNCHANGED <<notConcurrent, ckind>>

ConcurrentNext ==
  \/ \E i \in Operations : CAssociate(i)
  \/ \E i \in Operations : CNotEstablished(i)
  \/ \E i \in Operations : CExchange(i)
  \/ \E i \in Operations : CExchangeRaises(i)
  \/ \E i \in Operations : CRelease(i)

\* ------------------------------------------------------------------------
\* api_main.py: retrieve_multiple_instances_via_cmove
\* ------------------------------------------------------------------------
SOPInstanceUIDs == {"1.2.3.4", "1.2.3.5"}

InstanceLists == UNION { [1..n -> SOPInstanceUIDs] : n \in 0..MaxInstances }

\* how one call of perform_c_move_async ends for its caller: it returns the
\* list of responses (final is the Status of the last status dataset that
\* is not empty, None when there is none), or it raises ConnectionError
\* (association not established) or another exception
MoveCallOutcomes ==
  { [kind |-> "returned", final |-> f] :
      f \in {None, Some(StatusSuccess), Some(StatusCannotProcess)} }
  \cup { [kind |-> k, final |-> None] : k \in {"ConnectionError", "Exception"} }

\* instance_response_summary["status_code_hex"] after the try statement
StatusCodeHex(out) ==
  IF out.kind = "ConnectionError" THEN <<"CONN_ERROR">>
  ELSE IF out.kind = "Exception" THEN <<"SERVER_ERROR">>
  ELSE IF out.final # None THEN <<"0x", out.final[1]>>
  ELSE <<"N/A">>

\* the summary of one instance
InstanceSummary(sop, out) == [sop_instance_uid |-> sop, status_code_hex |-> StatusCodeHex(out)]

BulkInit ==
  /\ instances_to_move \in IF op = "bulk" THEN InstanceLists ELSE {<<>>}
  /\ kpc = IF op = "bulk" THEN "start" ELSE "idle"
  /\ kmoves = <<>>
  /\ kouts = <<>>
  /\ responses_summary = <<>>

\* if not request_data.instances_to_move: raise HTTPException(400)
BulkCheck ==
  /\ kpc = "start"
  /\ kpc' = IF instances_to_move = <<>> THEN "rejected" ELSE "loop"
  /\ UNCHANGED <<notBulk, instances_to_move, kmoves, kouts, responses_summary>>

\* for instance_info in ...: the identifier and the summary are built and
\* perform_c_move_async is awaited
BulkCall ==
  /\ kpc = "loop"
  /\ Len(responses_summary) < Len(instances_to_move)
  /\ kmoves' = Append(kmoves, instances_to_move[Len(responses_summary) + 1])
  /\ kpc' = "moving"
  /\ UNCHANGED <<notBulk, instances_to_move, kouts, responses_summary>>

\* a loop whose body has no try statement: an exception of
\* perform_c_move_async leaves the endpoint
BulkCompleteUnguarded ==
  /\ kpc = "moving"
  /\ \E out \in MoveCallOutcomes :
       /\ kouts' = Append(kouts, out)
       /\ IF out.kind = "returned"
          THEN /\ responses_summary' =
                    Append(responses_summary, InstanceSummary(kmoves[Len(kmoves)], out))
               /\ kpc' = "loop"
          ELSE /\ responses_summary' = responses_summary
               /\ kpc' = "raised"
  /\ UNCHANGED <<notBulk, instances_to_move, kmoves>>

\* the await ends; the statements after it or an except clause fill the
\* summary; responses_summary.append(instance_response_summary)
BulkComplete ==
  /\ kpc = "moving"
  /\ \E out \in MoveCallOutcomes :
       /\ kouts' = Append(kouts, out)
       /\ responses_summary' =
            Append(responses_summary, InstanceSummary(kmoves[Len(kmoves)], out))
  /\ kpc' = "loop"
  /\ UNCHANGED <<notBulk, instances_to_move, kmoves>>

\* the loop ends: return {"message": ..., "results": responses_summary}
BulkReturn ==
  /\ kpc = "loop"
  /\ Len(responses_summary) = Len(instances_to_move)
  /\ kpc' = "returned"
  /\ UNCHANGED <<notBulk, instances_to_move, kmoves, kouts, responses_summary>>

BulkNext ==
  \/ BulkCheck
  \/ BulkCall
  \/ BulkComplete
  \/ BulkReturn

\* ------------------------------------------------------------------------
\* The mcp_server package: context.py, lifecycle.py, main.py, tools
\* ------------------------------------------------------------------------
\* the modules that run `from mcp_server.context import dicom_context`
ImportingModules == {"main", "query", "store"}

\* the tools that test dicom_context, each with the module defining it
GuardedTools == {"query_studies", "query_series", "move_dicom_entity_to_local_server"}

ToolModule(t) == IF t = "move_dicom_entity_to_local_server" THEN "store" ELSE "query"

McpInit ==
  /\ ipc = IF op = "mcp" THEN "start" ELSE "idle"
  /\ module_dicom_context = "unset"
  /\ bound_dicom_context = [m \in ImportingModules |-> "unbound"]
  /\ initialized = FALSE
  /\ tool_result = [t \in GuardedTools |-> "none"]

\* from mcp_server.lifecycle import _initialize_server
\* lifecycle.py imports mcp_server.context, whose body sets dicom_context =
\* None, and then annotates scp_thread with Optional, a name lifecycle.py
\* never imports: an interpreter that evaluates module annotations when the
\* module runs raises NameError, one that defers them goes on
ImportLifecycle ==
  /\ ipc = "start"
  /\ module_dicom_context' = "None"
  /\ \E deferred \in BOOLEAN : ipc' = IF deferred THEN "lifecycle" ELSE "import_failed"
  /\ UNCHANGED <<notMcp, bound_dicom_context, initialized, tool_result>>

\* from mcp_server.context import dicom_context: the importing module's own
\* name is bound to the object the attribute refers to at this moment
Bind(names, m, value) == [names EXCEPT ![m] = value]

\* from mcp_server.tools.query import ...; from mcp_server.tools.store import ...
\* each tools module runs its own `from mcp_server.context import dicom_context`
BindTools(names, value) == Bind(Bind(names, "query", value), "store", value)

\* main.py: from mcp_server.context import dicom_context
ImportContext ==
  /\ ipc = "lifecycle"
  /\ bound_dicom_context' = Bind(bound_dicom_context, "main", module_dicom_context)
  /\ ipc' = "context"
  /\ UNCHANGED <<notMcp, module_dicom_context, initialized, tool_result>>

\* main.py: the imports of the tool functions
ImportTools ==
  /\ ipc = "context"
  /\ bound_dicom_context' = BindTools(bound_dicom_context, module_dicom_context)
  /\ ipc' = "tools"
  /\ UNCHANGED <<notMcp, module_dicom_context, initialized, tool_result>>

\* main.py: _initialize_server()
\*   mcp_context_module.dicom_context = DicomToolContext(...)
\* rebinds the attribute of mcp_server.context and no other name
InitializeServer ==
  /\ ipc = "tools"
  /\ module_dicom_context' = "context"
  /\ initialized' = TRUE
  /\ ipc' = "initialized"
  /\ UNCHANGED <<notMcp, bound_dicom_context, tool_result>>

\* main.py: mcp = FastMCP(...); mcp.tool()(...) for each tool
RegisterTools ==
  /\ ipc = "initialized"
  /\ ipc' = "serving"
  /\ UNCHANGED <<notMcp, module_dicom_context, bound_dicom_context, initialized,
                 tool_result>>

\* the name dicom_context as the module of tool t sees it: its own global
\* if the module bound one, else (a module that reads the attribute through
\* mcp_server.context) the attribute itself
Observed(t) ==
  IF bound_dicom_context[ToolModule(t)] = "unbound" THEN module_dicom_context
  ELSE bound_dicom_context[ToolModule(t)]

\* a tool is invoked:
\*   if not dicom_context:
\*       return json.dumps({"error": "El contexto DICOM no está inicializado."})
ToolCall(t) ==
  /\ ipc = "serving"
  /\ tool_result' = [tool_result EXCEPT ![t] =
                       IF Observed(t) = "context" THEN "proceeds" ELSE "not_initialised"]
  /\ UNCHANGED <<notMcp, ipc, module_dicom_context, bound_dicom_context, initialized>>

McpNext ==
  \/ ImportLifecycle
  \/ ImportContext
  \/ ImportTools
  \/ InitializeServer
  \/ RegisterTools
  \/ \E t \in GuardedTools : ToolCall(t)

\* ------------------------------------------------------------------------
\* Instance-query response builders: the conversion of element values
\* ------------------------------------------------------------------------
\* api_main.find_instances_in_series, api_main_new.find_instances_in_series
\* and main.query_instances
Variants == {"api_main", "api_main_new", "main"}

\* element.value: None ("none"), one value ("single"), a MultiValue
\* ("multi") or a byte string of len bytes ("bytes").  The value of an IS or
\* DS element whose text is no number is kept by pydicom as that text.
Value(kind, vs, len) == [kind |-> kind, vs |-> vs, len |-> len]

NoValue == Value("none", <<>>, 0)

\* a data element; items is the content of a sequence (VR 'SQ'): one inner
\* element per item
Element(tag, vr, value, items) == [tag |-> tag, VR |-> vr, value |-> value, items |-> items]

\* int(text) / float(text) succeeds
IsNumber(text) == text \in {"12", "7"}

PlainValues(vr) ==
  IF vr \in {"IS", "DS"}
  THEN {NoValue, Value("single", <<"12">>, 0), Value("single", <<"abc">>, 0),
        Value("multi", <<"12", "7">>, 0)}
  ELSE IF vr \in {"US", "FL"}
  THEN {NoValue, Value("single", <<"12">>, 0), Value("multi", <<"12", "7">>, 0)}
  ELSE IF vr \in {"PN", "DA"}
  THEN {NoValue, Value("single", <<"A">>, 0), Value("multi", <<"A", "B">>, 0)}
  ELSE {Value("single", <<"A">>, 0), Value("multi", <<"A", "B">>, 0)}

PlainElements ==
  UNION { { Element("other", vr, v, <<>>) : v \in PlainValues(vr) } :
            vr \in {"IS", "DS", "US", "FL", "PN", "DA", "CS"} }
  \cup { Element(tag, "OW", Value("bytes", <<>>, 5000), <<>>) : tag \in {"LUTData", "other"} }

SequenceElements == { Element("other", "SQ", NoValue, <<inner>>) : inner \in PlainElements }

\* datasets of one element each
ResultDatasets == PlainElements \cup SequenceElements

\* the datasets after the first one of a response
FurtherDatasets ==
  {Element("other", "CS", Value("single", <<"A">>, 0), <<>>),
   Element("other", "IS", Value("single", <<"abc">>, 0), <<>>)}

ResultLists ==
  UNION { { r \in [1..n -> ResultDatasets] : \A i \in 2..n : r[i] \in FurtherDatasets } :
            n \in 1..MaxDatasets }

\* values of the response: k is the JSON kind and how it was made
\*   "null"; "str" the text s; "str_int" str(int(s)); "str_float"
\*   str(float(s)); "int" int(s); "float" float(s); "list" the list l;
\*   "marker" the note s with length n; "str_of_list" the text str() makes
\*   of the MultiValue l; "str_of_bytes" the text str() makes of n bytes;
\*   "raise" the conversion raised the exception s
Json(k, s, n, l) == [k |-> k, s |-> s, n |-> n, l |-> l]

JNull == Json("null", "", 0, <<>>)
JStr(s) == Json("str", s, 0, <<>>)
JList(l) == Json("list", "", 0, l)
JMarker(s, n) == Json("marker", s, n, <<>>)
JRaise(s) == Json("raise", s, 0, <<>>)

\* str(element.value) for a value that is not None
PyStr(value) ==
  IF value.kind = "single" THEN JStr(value.vs[1])
  ELSE IF value.kind = "multi"
  THEN Json("str_of_list", "", 0, [i \in DOMAIN value.vs |-> JStr(value.vs[i])])
  ELSE Json("str_of_bytes", "", value.len, <<>>)

\* the IS, DS, US.., FL.. branches of api_main.py and api_main_new.py:
\*   if isinstance(value, MultiValue): [conv(v) for v in value]
\*   elif value is not None: conv(value)
\*   else: None
\* conv raises ValueError for a text that is no number
ConvertNumbers(value, conv) ==
  IF value.kind = "multi"
  THEN IF \A i \in DOMAIN value.vs : IsNumber(value.vs[i])
       THEN JList([i \in DOMAIN value.vs |-> Json(conv, value.vs[i], 0, <<>>)])
       ELSE JRaise("ValueError")
  ELSE IF value.kind = "single"
  THEN IF IsNumber(value.vs[1]) THEN Json(conv, value.vs[1], 0, <<>>)
       ELSE JRaise("ValueError")
  ELSE JNull

\* the conversion of the numeric VRs, None for another VR
NumberConversion(vr) ==
  IF vr = "IS" THEN Some("str_int")
  ELSE IF vr = "DS" THEN Some("str_float")
  ELSE IF vr = "US" THEN Some("int")
  ELSE IF vr = "FL" THEN Some("float")
  ELSE None

\* api_main.py and api_main_new.py, the branches of an element inside a
\* sequence item; api_main_new.py has no branch for byte strings
EncodeItemApi(v, el) ==
  IF el.tag = "LUTData"
  THEN JMarker("Binary LUT data", IF el.value.kind = "none" THEN 0 ELSE el.value.len)
  ELSE IF el.VR \in {"PN", "DA"}
  THEN IF el.value.kind = "none" THEN JStr("") ELSE PyStr(el.value)
  ELSE IF NumberConversion(el.VR) # None
  THEN ConvertNumbers(el.value, NumberConversion(el.VR)[1])
  ELSE IF v = "api_main" /\ el.value.kind = "bytes"
  THEN JMarker("Binary data", el.value.len)
  ELSE IF el.value.kind = "none" THEN JNull
  ELSE PyStr(el.value)

\* main.py, an element inside a sequence item:
\*   str(item_element.value) if item_element.value is not None else None
EncodeItemMain(el) ==
  IF el.value.kind = "none" THEN JNull ELSE PyStr(el.value)

EncodeItem(v, el) ==
  IF v = "main" THEN EncodeItemMain(el) ELSE EncodeItemApi(v, el)

\* the list of the items of a sequence; an exception of an inner conversion
\* leaves the comprehension
EncodeSequence(v, el) ==
  LET inner == [i \in DOMAIN el.items |-> EncodeItem(v, el.items[i])] IN
  IF \E i \in DOMAIN inner : inner[i].k = "raise"
  THEN JRaise("ValueError")
  ELSE JList(inner)

\* api_main.py and api_main_new.py, the branches of a top-level element;
\* api_main_new.py has no branch for byte strings
EncodeTopApi(v, el) ==
  IF el.VR = "SQ" THEN EncodeSequence(v, el)
  ELSE IF el.VR \in {"PN", "DA"}
  THEN IF el.value.kind = "none" THEN JStr("") ELSE PyStr(el.value)
  ELSE IF NumberConversion(el.VR) # None
  THEN ConvertNumbers(el.value, NumberConversion(el.VR)[1])
  ELSE IF v = "api_main" /\ el.value.kind = "bytes"
  THEN JMarker("Binary data", el.value.len)
  ELSE IF el.value.kind = "none" THEN JNull
  ELSE PyStr(el.value)

\* main.py, a top-level element:
\*   elif isinstance(element.value, MultiValue): [str(v) for v in element.value]
\*   else: str(element.value) if element.value is not None else ""
EncodeTopMain(el) ==
  IF el.VR = "SQ" THEN EncodeSequence("main", el)
  ELSE IF el.value.kind = "multi"
  THEN JList([i \in DOMAIN el.value.vs |-> JStr(el.value.vs[i])])
  ELSE IF el.value.kind = "none" THEN JStr("")
  ELSE PyStr(el.value)

\* value_to_store of one element
Encode(v, el) ==
  IF v = "main" THEN EncodeTopMain(el) ELSE EncodeTopApi(v, el)

EncodeInit ==
  /\ variant \in IF op = "encode" THEN Variants ELSE {"none"}
  /\ results_datasets \in IF op = "encode" THEN ResultLists ELSE {<<>>}
  /\ epc = IF op = "encode" THEN "loop" ELSE "idle"
  /\ response_list = <<>>
  /\ eoutcome = "none"

\* one iteration of: for res_ds in results_datasets:
\* an exception of the conversion leaves the loop; in api_main.py and
\* api_main_new.py the `except Exception` around it answers HTTP 500
EncodeDataset ==
  /\ epc = "loop"
  /\ Len(response_list) < Len(results_datasets)
  /\ LET value_to_store == Encode(variant, results_datasets[Len(response_list) + 1]) IN
     IF value_to_store.k = "raise"
     THEN /\ epc' = "done"
          /\ eoutcome' = IF variant = "main" THEN "escaped" ELSE "http_500"
          /\ UNCHANGED response_list
     ELSE /\ response_list' = Append(response_list, value_to_store)
          /\ UNCHANGED <<epc, eoutcome>>
  /\ UNCHANGED <<notEncode, variant, results_datasets>>

\* return response_list
EncodeReturn ==
  /\ epc = "loop"
  /\ Len(response_list) = Len(results_datasets)
  /\ epc' = "done"
  /\ eoutcome' = "returned"
  /\ UNCHANGED <<notEncode, variant, results_datasets, response_list>>

EncodeNext ==
  \/ EncodeDataset
  \/ EncodeReturn

\* the machines of the later sections
LaterOps == {"bulk", "mcp", "encode"}

Init ==
  /\ op \in {"move", "find", "build", "store", "listener", "concurrent"} \cup LaterOps
  /\ netctx = {}
  /\ MoveInit
  /\ FindInit
  /\ BuildInit
  /\ StoreInit
  /\ ListenerInit
  /\ ConcurrentInit
  /\ BulkInit
  /\ McpInit
  /\ EncodeInit

Next ==
  \/ MoveNext
  \/ FindNext
  \/ BuildNext
  \/ StoreNext
  \/ ListenerNext
  \/ ConcurrentNext
  \/ BulkNext
  \/ McpNext
  \/ EncodeNext

Spec == Init /\ [][Next]_vars

\* ------------------------------------------------------------------------
\* Properties
\* ------------------------------------------------------------------------
MoveExited == mpc \in {"returned", "raised", "done"}
FindExited == fpc \in {"returned", "raised", "done"}

\* C1: for perform_c_find_async and perform_c_move_async alike, an
\* association that was established is no longer open once the operation
\* has returned or raised.
C1_ReleasedOnEveryExit ==
  /\ MoveExited => massoc # "established"
  /\ FindExited => fassoc # "established"

\* C2: a query whose association never establishes sends no C-FIND and hands
\* its caller an empty list together with an error indicator.
C2_FindAssocFailureSurfaced ==
  (fpc = "done" /\ fassoc = "failed") =>
    /\ ~fsent
    /\ foutcome.results = <<>>
    /\ foutcome.error # "none"

\* C3: a retrieve whose association cannot be established sends no C-MOVE,
\* attempts no release, and reaches the caller of the endpoint as an outcome
\* in state UNKNOWN, not as an exception.
C3_MoveAssocFailureIsUnknown ==
  (mpc = "done" /\ massoc = "failed") =>
    /\ ~msent
    /\ mreleases = 0
    /\ moutcome.kind = "returned"
    /\ moutcome.label = "UNKNOWN"

\* the largest value reported for a counter over all reports, 0 if none
Max(S) == CHOOSE x \in S : \A y \in S : y <= x
Reported(results, key) ==
  { results[i][key][1] : i \in {j \in DOMAIN results : results[j][key] # None} }
MaxReported(results, key) == Max(Reported(results, key) \cup {0})

CountedOutcome == moutcome.label \in {"status", "success", "pending", "failure"}

ExampleReports ==
  << StatusDataset(Some(StatusPending), <<Some(1), Some(0), Some(0)>>),
     StatusDataset(Some(StatusPending), <<Some(3), Some(1), Some(0)>>),
     StatusDataset(Some(StatusSuccess), <<Some(4), Some(1), Some(0)>>) >>

\* C4: the completed, failed and warning counters of the outcome are the
\* maxima of the values reported over all reports; the reports
\* (PENDING,1,0,0), (PENDING,3,1,0), (SUCCESS,4,1,0) give SUCCESS, 4, 1, 0.
C4_CountersAreMaxima ==
  (mpc = "done" /\ CountedOutcome) =>
    /\ moutcome.completed = Some(MaxReported(mresults, "NumberOfCompletedSuboperations"))
    /\ moutcome.failed = Some(MaxReported(mresults, "NumberOfFailedSuboperations"))
    /\ moutcome.warning = Some(MaxReported(mresults, "NumberOfWarningSuboperations"))
    /\ mresults = ExampleReports =>
         /\ moutcome.status = Some(StatusSuccess)
         /\ moutcome.completed = Some(4)
         /\ moutcome.failed = Some(1)
         /\ moutcome.warning = Some(0)

\* the terminal state a status code stands for
StateOfCode(code) ==
  IF code = StatusSuccess THEN "SUCCESS"
  ELSE IF code = StatusPending THEN "PENDING"
  ELSE "FAILURE"

\* the terminal state the caller reads off an outcome
OutcomeState(o) ==
  IF o.label = "status" THEN StateOfCode(o.status[1])
  ELSE IF o.label = "success" THEN "SUCCESS"
  ELSE IF o.label = "pending" THEN "PENDING"
  ELSE IF o.label = "failure" THEN "FAILURE"
  ELSE IF o.label \in {"UNKNOWN", "incomplete"} THEN "UNKNOWN"
  ELSE "ERROR"

StatusReports(results) == {i \in DOMAIN results : HasStatus(results[i])}

MoveFolded == mpc = "done" /\ mexc = "none"

\* C5: when some report carried a status code, the terminal state is the one
\* of the last such report; it is UNKNOWN only when no report carried one.
C5_LastStatusDecides ==
  MoveFolded =>
    IF StatusReports(mresults) = {}
    THEN OutcomeState(moutcome) = "UNKNOWN"
    ELSE OutcomeState(moutcome) =
           StateOfCode(mresults[Max(StatusReports(mresults))].Status[1])

\* a report with a non-pending status has been folded
Terminated ==
  /\ final_status_ds # None
  /\ HasStatus(final_status_ds[1])
  /\ final_status_ds[1].Status[1] # StatusPending

\* C6: while the reports are folded no counter decreases from one step to
\* the next, and once a non-pending status was folded no later report
\* changes the status or the counters.
C6_MonotoneThenImmutable ==
  [][ /\ num_completed' >= num_completed
      /\ num_failed' >= num_failed
      /\ num_warning' >= num_warning
      /\ Terminated =>
           UNCHANGED <<final_status_ds, num_completed, num_failed, num_warning>>
    ]_vars

\* C7: a retrieve whose response stream ends without any status report has
\* the outcome UNKNOWN, which carries no status code and is none of the
\* outcomes given for SUCCESS, PENDING or FAILURE.
C7_NoReportIsUnknown ==
  (MoveFolded /\ StatusReports(mresults) = {}) =>
    /\ OutcomeState(moutcome) = "UNKNOWN"
    /\ moutcome.status = None
    /\ ~CountedOutcome
    /\ moutcome.http # Some(202)

C7_Witness ==
  /\ MoveFolded
  /\ msent
  /\ StatusReports(mresults) = {}
  /\ Len(mresults) > 0
  /\ OutcomeState(moutcome) = "UNKNOWN"

\* the datasets of the pending responses that precede the first non-pending
\* response, in delivery order
NonPending(stream) == {i \in DOMAIN stream : ~IsPending(stream[i].status)}
FirstNonPending(stream) ==
  IF NonPending(stream) = {} THEN Len(stream) + 1
  ELSE CHOOSE i \in NonPending(stream) : \A j \in NonPending(stream) : i <= j

RECURSIVE Datasets(_)
Datasets(stream) ==
  IF stream = <<>> THEN <<>>
  ELSE LET id == Head(stream).identifier IN
       (IF id # None /\ id[1] # {} THEN <<id[1]>> ELSE <<>>)
         \o Datasets(Tail(stream))

PendingBeforeTerminal(stream) ==
  Datasets(SubSeq(stream, 1, FirstNonPending(stream) - 1))

FindReturned == fpc = "done" /\ foutcome.kind = "returned" /\ fassoc = "released"

FailureSeen(stream) ==
  \E i \in DOMAIN stream :
    stream[i].status # None /\ stream[i].status[1] \in FailureCodes

\* C9: after a failure status in the C-FIND response stream the caller
\* receives the datasets collected up to it together with an error indicator
\* that tells the outcome from a successful query.
C9_FailureIsMarked ==
  (FindReturned /\ FailureSeen(fresponses)) =>
    /\ foutcome.results = PendingBeforeTerminal(fresponses)
    /\ foutcome.error # "none"

\* C10: at SERIES and IMAGE level no generic filter changes or clears the
\* hierarchy identifiers: the built descriptor carries the StudyInstanceUID
\* (and at IMAGE level the SeriesInstanceUID) of the request path.
C10_HierarchyNotOverridable ==
  (bpc = "built" /\ endpoint \in ScopedEndpoints) =>
    /\ identifier["StudyInstanceUID"] = Some(study_instance_uid)
    /\ endpoint \in InstanceEndpoints =>
         identifier["SeriesInstanceUID"] = Some(series_instance_uid)

\* ------------------------------------------------------------------------
\* Tokens as the resolver contract reads them
\* ------------------------------------------------------------------------
\* a hex pair "GGGG,EEEE" with optional surrounding blanks and an optional
\* balanced pair of parentheses
WellFormedHexPair(token) ==
  LET t == Strip(token, {" "})
      inner == IF Len(t) >= 2 /\ t[1] = "(" /\ t[Len(t)] = ")"
               THEN SubSeq(t, 2, Len(t) - 1) ELSE t
      parts == Split(inner)
  IN /\ \A i \in DOMAIN inner : inner[i] \notin {"(", ")"}
     /\ Len(parts) = 2
     /\ \A i \in 1..2 : Int16(parts[i]) # None /\ Int16(parts[i])[1] <= 65535

\* the attribute a token denotes: by keyword or by well-formed hex pair
Denotes(token) ==
  IF tag_for_keyword(token) # None THEN keyword_for_tag(tag_for_keyword(token)[1])
  ELSE IF WellFormedHexPair(token) THEN keyword_for_tag(ParseHexPair(token)[1])
  ELSE None

\* the values the generic filter map supplies for attribute kw
GenericValues(kw) ==
  { filters[i][2] : i \in { j \in DOMAIN filters : Denotes(filters[j][1]) = Some(kw) } }

\* C11: in a built STUDY-level descriptor every attribute carries the value
\* of the highest-precedence source that supplies it: a value of the generic
\* filter map if the map names the attribute, else the named filter if it
\* was provided, else the empty default.
C11_HighestPrecedenceWins ==
  (bpc = "built" /\ endpoint \in StudyEndpoints) =>
    \A kw \in base_return_fields :
      IF GenericValues(kw) # {}
      THEN identifier[kw] # None /\ identifier[kw][1] \in GenericValues(kw)
      ELSE IF kw \in AllNamedKeys /\ named[kw] # None
      THEN identifier[kw] = named[kw]
      ELSE identifier[kw] = Some("")

\* C12: every built descriptor satisfies the level invariant (IMAGE needs a
\* non-empty SeriesInstanceUID, SERIES a non-empty StudyInstanceUID), and a
\* retrieve request naming a SOP instance without a series is never built:
\* it is rejected while no association exists.
C12_LevelInvariant ==
  /\ bpc = "built" =>
       /\ identifier["QueryRetrieveLevel"] = Some("IMAGE") =>
            NonEmpty(identifier["SeriesInstanceUID"])
       /\ identifier["QueryRetrieveLevel"] = Some("SERIES") =>
            NonEmpty(identifier["StudyInstanceUID"])
  /\ (endpoint \in MoveEndpoints /\ NonEmpty(request.sop) /\ ~NonEmpty(request.series)) =>
       (bpc \in {"start", "rejected"} /\ massoc = "none")

\* the dictionary keyword the endpoint's filter loop sets for a token, None
\* when the loop skips the entry
AppliedKeyword(ep, key) ==
  IF Resolve(ep, key) = None THEN None ELSE keyword_for_tag(Resolve(ep, key)[1])

MalformedTokens == {TokNonHex, TokOneComponent, TokThreeComponents, TokUnbalanced}

\* the token the next loop iteration carries, None outside the loops
CarriedToken ==
  IF bpc = "filters" /\ bidx < Len(filters) THEN Some(filters[bidx + 1][1])
  ELSE IF bpc = "fields" /\ bidx < Len(fields) THEN Some(fields[bidx + 1])
  ELSE None

\* C14: a filter or field carrying a malformed hex-pair token is not applied:
\* the iteration leaves the descriptor unchanged and raises nothing past the
\* loop.
C14_MalformedTokenNotApplied ==
  [][ (CarriedToken # None /\ CarriedToken[1] \in MalformedTokens) =>
        (identifier' = identifier /\ bpc' # "failed") ]_vars

\* ------------------------------------------------------------------------
\* Storage receiver and listener properties
\* ------------------------------------------------------------------------
\* C15: every handled C-STORE event ends with a status code returned by
\* handle_store; no exception leaves the handler, whatever the event.
C15_HandlerNeverRaises ==
  \A i \in DOMAIN hlog : hlog[i].outcome # None

\* C16: a decoded object without SOP Instance UID is answered with the
\* failure status 0xA801 and its handler opens no file.
C16_NoUIDRejected ==
  \A i \in DOMAIN hlog :
    (hlog[i].event.decodable /\ hlog[i].event.uid = None) =>
      (hlog[i].outcome = Some(StatusNoInstanceUID) /\ ~hlog[i].touched)

\* an object without SOP Instance UID was handled while the directory holds
\* the file of another delivery
C16_Witness ==
  /\ \E i \in DOMAIN hlog : hlog[i].event.decodable /\ hlog[i].event.uid = None
  /\ DOMAIN storage # {}

Quiescent == \A h \in Handlers : hpc[h] = "idle"

AllSucceeded == \A i \in DOMAIN hlog : hlog[i].outcome = Some(StatusSuccess)

DeliveredUIDs == { hlog[i].event.uid[1] : i \in DOMAIN hlog }

\* C17: a delivery the disk accepts succeeds whether or not its file exists
\* already; once a sequence of successful deliveries is handled the
\* directory holds exactly the files <UID>.dcm of the delivered UIDs, one
\* each, holding what a delivery of that UID wrote.
C17_OneFilePerUID ==
  /\ \A i \in DOMAIN hlog :
       (hlog[i].event.decodable /\ hlog[i].event.uid # None /\ hlog[i].event.cls
          /\ hlog[i].event.disk = "ok") => hlog[i].outcome = Some(StatusSuccess)
  /\ (Quiescent /\ AllSucceeded) =>
       /\ DOMAIN storage = { <<u, ".dcm">> : u \in DeliveredUIDs }
       /\ Cardinality(DOMAIN storage) = Cardinality(DeliveredUIDs)
       /\ \A u \in DeliveredUIDs :
            \E i \in DOMAIN hlog :
              /\ hlog[i].event.uid = Some(u)
              /\ hlog[i].event.n \in { storage[<<u, ".dcm">>][k] :
                                          k \in DOMAIN storage[<<u, ".dcm">>] }

\* three successful deliveries, two of them of the same UID
C17_Witness ==
  /\ Quiescent
  /\ AllSucceeded
  /\ Len(hlog) = 3
  /\ Cardinality(DeliveredUIDs) = 2
  /\ Cardinality(DOMAIN storage) = 2

\* C20: the listener thread is started at most once, and once the shutdown
\* hook has run the listener was asked to stop or is not running: it is not
\* left to serve.
C20_ListenerStoppedAfterShutdown ==
  /\ starts <= 1
  /\ hookpc = "done" => (shutdown_requested \/ tpc = "stopped")

\* ------------------------------------------------------------------------
\* Execution contexts
\* ------------------------------------------------------------------------
\* C18: in query and retrieve every blocking network step (associate, send,
\* receive a response, release) runs on a worker thread, never on the thread
\* of the event loop.
C18_NetworkStepsOnWorker ==
  \A s \in netctx : s[2] = "worker"

\* ------------------------------------------------------------------------
\* Concurrent operations
\* ------------------------------------------------------------------------
\* the association of operation i, "none" before it asked for one
AssocState(as, i) == IF AssocOf(i) \in DOMAIN as THEN as[AssocOf(i)] ELSE "none"

\* C19: concurrent operations have distinct associations, and a step of one
\* operation (its association failing, its exchange raising, its release)
\* changes neither the association state nor the result of any other
\* operation.
C19_OperationsIndependent ==
  [][ /\ \A i, j \in Operations : i # j => AssocOf(i) # AssocOf(j)
      /\ \A j \in Operations :
           cpc'[j] = cpc[j] =>
             /\ AssocState(assocs', j) = AssocState(assocs, j)
             /\ cresult'[j] = cresult[j]
    ]_vars

\* one operation failed to associate while the other, in flight at the same
\* time, completed its exchange, released its association and returned
C19_Witness ==
  /\ op = "concurrent"
  /\ \E i, j \in Operations :
       /\ i # j
       /\ cpc[i] = "done" /\ AssocState(assocs, i) = "failed"
       /\ cpc[j] = "done" /\ AssocState(assocs, j) = "released"
       /\ cresult[j] = [kind |-> "returned", data |-> <<j>>]

\* ------------------------------------------------------------------------
\* Query level of the built descriptor
\* ------------------------------------------------------------------------
\* the level the endpoint assigns before it reads any filter
EndpointLevel(ep) == BaseIdentifier(ep)["QueryRetrieveLevel"]

\* C30: the Query Level of a built query descriptor equals the level of its
\* endpoint: no entry of the generic filter map, by keyword
\* QueryRetrieveLevel or by hex pair (0008,0052), changes it.
C30_LevelNotOverridable ==
  (bpc = "built" /\ endpoint \notin MoveEndpoints) =>
    identifier["QueryRetrieveLevel"] = EndpointLevel(endpoint)

\* ------------------------------------------------------------------------
\* 'fields' against 'filters' in the instance query
\* ------------------------------------------------------------------------
\* C28: each step of the 'fields' loop of the instance query leaves every
\* attribute the descriptor already carries (from the base or from
\* 'filters') at its value, and an attribute its field denotes that the
\* descriptor does not carry yet is added with the empty value.
C28_FieldsNeverOverwriteFilters ==
  [][ (bpc = "fields" /\ bidx < Len(fields)) =>
        LET kw == Denotes(fields[bidx + 1]) IN
        /\ \A k \in Keywords : identifier[k] # None => identifier'[k] = identifier[k]
        /\ (kw # None /\ identifier[kw[1]] = None) => identifier'[kw[1]] = Some("")
    ]_vars

\* ------------------------------------------------------------------------
\* Order of events in perform_c_find_async
\* ------------------------------------------------------------------------
\* C25: in perform_c_find_async the C-FIND is sent only on the established
\* association, responses are received only after the send and before the
\* release, the association is released exactly once and only if it was
\* established, results are returned only after the whole stream was drained
\* and processed and the association released, and an exception raised in
\* the exchange is re-raised after the release, never turned into a return.
C25_FindEventOrder ==
  [][ /\ (fsent' /\ ~fsent) => (fassoc = "established" /\ freleases = 0)
      /\ fstream' # fstream => (fsent /\ fassoc = "established" /\ freleases = 0)
      /\ freleases' # freleases =>
           /\ fassoc = "established"
           /\ freleases = 0 /\ freleases' = 1
           /\ fexc = "none" => (fsent /\ fresponses = fstream /\ fidx = Len(fresponses))
      /\ (fpc' = "returned" /\ fpc # "returned") =>
           IF fassoc' = "failed" THEN freleases' = 0 /\ ~fsent'
           ELSE /\ freleases' = 1
                /\ fexc' = "none"
                /\ fresponses' = fstream' /\ fidx' = Len(fresponses')
      /\ (fpc' = "raised" /\ fpc # "raised") => (freleases' = 1 /\ fexc' # "none")
      /\ fexc # "none" =>
           /\ fpc' \in {"finally", "raised", "done"}
           /\ foutcome'.kind # "returned"
    ]_vars

\* the exchange raised after two responses were received; the association
\* was released once and the exception reached the caller
C25_Witness ==
  /\ fpc = "raised"
  /\ fassoc = "released"
  /\ freleases = 1
  /\ fsent
  /\ Len(fstream) = 2
  /\ fexc # "none"

\* C26: every delivery the disk accepts returns success, and once the
\* handlers have returned the file of each delivered UID holds the complete
\* object of one delivery of that UID, also when two deliveries of the UID
\* were handled at the same time: never parts of both, never a truncated
\* object.
C26_LastWriteWins ==
  /\ \A i \in DOMAIN hlog :
       (hlog[i].event.decodable /\ hlog[i].event.uid # None /\ hlog[i].event.cls
          /\ hlog[i].event.disk = "ok") => hlog[i].outcome = Some(StatusSuccess)
  /\ (Quiescent /\ AllSucceeded) =>
       \A u \in DeliveredUIDs :
         \E i \in DOMAIN hlog :
           /\ hlog[i].event.uid = Some(u)
           /\ storage[<<u, ".dcm">>] = WholeObject(hlog[i].event.n)

\* ------------------------------------------------------------------------
\* Bulk retrieve
\* ------------------------------------------------------------------------
\* C27: the bulk retrieve calls perform_c_move_async for the instances in
\* request order, one call at a time, and appends one summary per call in
\* the same order; a ConnectionError or another exception of a call is
\* recorded in the summary of its instance and the loop goes on: the
\* endpoint never ends on it, and it returns only with one summary per
\* requested instance.
C27_BulkMoveIsolatesFailures ==
  /\ Len(kmoves) <= Len(instances_to_move)
  /\ \A i \in DOMAIN kmoves : kmoves[i] = instances_to_move[i]
  /\ Len(responses_summary) <= Len(kmoves)
  /\ Len(kmoves) <= Len(responses_summary) + 1
  /\ Len(kouts) = Len(responses_summary) \/ kpc = "raised"
  /\ \A i \in DOMAIN responses_summary :
       /\ responses_summary[i].sop_instance_uid = instances_to_move[i]
       /\ kouts[i].kind = "ConnectionError" =>
            responses_summary[i].status_code_hex = <<"CONN_ERROR">>
       /\ kouts[i].kind = "Exception" =>
            responses_summary[i].status_code_hex = <<"SERVER_ERROR">>
       /\ (kouts[i].kind = "returned" /\ kouts[i].final # None) =>
            responses_summary[i].status_code_hex = <<"0x", kouts[i].final[1]>>
  /\ kpc # "raised"
  /\ kpc = "returned" =>
       /\ instances_to_move # <<>>
       /\ Len(responses_summary) = Len(instances_to_move)

\* the call for the first instance raised ConnectionError, the call for the
\* second one ended with status Success, and both summaries were returned
C27_Witness ==
  /\ kpc = "returned"
  /\ Len(instances_to_move) = 2
  /\ kouts[1].kind = "ConnectionError"
  /\ responses_summary[1].status_code_hex = <<"CONN_ERROR">>
  /\ responses_summary[2].status_code_hex = <<"0x", StatusSuccess>>

\* ------------------------------------------------------------------------
\* The DICOM context of the mcp_server tools
\* ------------------------------------------------------------------------
\* C29: once _initialize_server has completed, no invocation of a tool of
\* the mcp_server package ends with the error 'DICOM context is not
\* initialised'.
C29_ToolsSeeInitializedContext ==
  initialized => \A t \in GuardedTools : tool_result[t] # "not_initialised"

\* ------------------------------------------------------------------------
\* Value conversion of the instance-query response
\* ------------------------------------------------------------------------
\* the elements converted so far, each with the response value made of it:
\* top-level elements and elements inside sequence items
Converted ==
  { <<results_datasets[i], response_list[i]>> :
      i \in { j \in DOMAIN response_list : results_datasets[j].VR # "SQ" } }
  \cup UNION { { <<results_datasets[i].items[n], response_list[i].l[n]>> :
                   n \in DOMAIN results_datasets[i].items } :
               i \in { j \in DOMAIN response_list : results_datasets[j].VR = "SQ" } }

\* an IS or DS element whose one value is no number
Unparsable(el) ==
  /\ el.VR \in {"IS", "DS"}
  /\ el.value.kind = "single"
  /\ ~IsNumber(el.value.vs[1])

\* C21: an IS or DS value that is no number is encoded as its raw text; the
\* instance query never ends in an error because of it: it returns one
\* record per dataset.
C21_UnparsableNumberKeptAsText ==
  /\ \A p \in Converted : Unparsable(p[1]) => p[2] = JStr(p[1].value.vs[1])
  /\ epc = "done" =>
       /\ eoutcome = "returned"
       /\ Len(response_list) = Len(results_datasets)

\* C22: in every variant a LUTData element inside a sequence item is
\* encoded as a marker that carries its byte length, never as its bytes.
C22_LUTDataOnlyAsLengthMarker ==
  \A i \in DOMAIN response_list :
    results_datasets[i].VR = "SQ" =>
      \A n \in DOMAIN results_datasets[i].items :
        results_datasets[i].items[n].tag = "LUTData" =>
          /\ response_list[i].l[n].k = "marker"
          /\ response_list[i].l[n].n = results_datasets[i].items[n].value.len

\* C23: an element with more than one value is encoded as the list of the
\* encodings of its values in their order; an element with one value is
\* never encoded as a list.
C23_MultiValueIsOrderedList ==
  \A p \in Converted :
    /\ p[1].value.kind = "multi" =>
         /\ p[2].k = "list"
         /\ Len(p[2].l) = Len(p[1].value.vs)
         /\ \A n \in DOMAIN p[2].l :
              p[2].l[n] = EncodeItem(variant, [p[1] EXCEPT !.value =
                                                 Value("single", <<p[1].value.vs[n]>>, 0)])
    /\ p[1].value.kind = "single" => p[2].k # "list"

\* C24: an element whose value is absent is encoded as null, whatever its
\* VR, at top level and inside a sequence item.
C24_AbsentValueIsNull ==
  \A p \in Converted : p[1].value.kind = "none" => p[2] = JNull
====
